---- MODULE Spec2Model ----
(***************************************************************************)
(* Verification model of the MSSP-Tools clients:                           *)
(*   - fortiflex_mssp.RateLimiter        (lock-guarded sliding windows)    *)
(*   - fortiflex_client.RateLimiter      (unguarded sliding windows)       *)
(*   - fortiztp.client.FortiZTPClient    (token lifecycle, 401 retry)      *)
(*   - retry_with_backoff                (exponential backoff)             *)
(* Time is the value of time.time() in whole seconds.                      *)
(***************************************************************************)
EXTENDS Integers, Sequences, FiniteSets, TLC

VARIABLES
    clock,          \* the value time.time() returns
    ticks,          \* number of clock advances so far (bounded)
    \* ---- fortiflex_mssp.RateLimiter
    max_per_minute, max_per_hour,
    minute_calls, hour_calls,   \* the two deques
    lock,                       \* 0 = free, else the thread holding self.lock
    rl_pc,                      \* per thread: position inside wait_if_needed
    rl_now,                     \* per thread: the local variable `now`
    rl_wake,                    \* per thread: instant time.sleep may return
    rl_released,                \* history: clock value at each release
    rl_calls,                   \* number of wait_if_needed invocations started
    \* ---- fortiflex_client.RateLimiter (its two limits are max_per_minute
    \*      and max_per_hour above; it has no lock)
    c_minute_calls, c_hour_calls,   \* the two lists
    c_pc,                       \* per thread: position inside wait_if_needed
    c_now,                      \* per thread: the local variable `now`
    c_tmp,                      \* per thread: list built by a comprehension
    c_wake,                     \* per thread: instant time.sleep may return
    c_released,                 \* history: clock value when each call returned
    c_done,                     \* history: timestamp each returned call appended
    c_calls,                    \* number of wait_if_needed invocations started
    \* ---- fortiztp.client.FortiZTPClient
    z_access_token,             \* self._access_token (None, or the token held)
    z_token_expiry_time,        \* self._token_expiry_time
    z_issued_at,                \* history: clock value when the held token was stored
    z_expires_in,               \* history: lifetime the held token was issued with
    z_auth_calls,               \* history: POSTs made to AUTH_URL
    z_pc,                       \* position of the caller inside DeviceManager.list
    z_call,                     \* history of the logical call in progress
    z_outcome,                  \* how the last logical call ended
    z_gt,                       \* what the get_token() of the step just taken did
    z_ops,                      \* number of operations started
    z_discarded,                \* history: the tokens held when refresh_token() was invoked
    \* ---- retry_with_backoff around FortiFlexMSSP._make_request
    r_max_retries, r_base_delay, r_max_delay,   \* the decorator's arguments
    r_attempt,                  \* the loop variable `attempt`
    r_pc,                       \* "running", "returned" or "raised"
    r_replies,                  \* history: what each physical request met
    r_sleeps,                   \* history: the argument of each time.sleep
    r_calls,                    \* history: invocations of the wrapped function
    r_result,                   \* the request whose response was returned (0: none)
    r_error,                    \* the exception raised to the caller
    \* ---- fortiflex_mssp.FortiFlexMSSP
    m_access_token, m_refresh_token, m_token_expires_at,    \* the flexvm profile
    m_asset_token, m_asset_token_expires_at,    \* the assetmanagement profile
    m_posts,                    \* history: POSTs made to OAUTH_URL
    m_last_auth,                \* history: per profile, the token of its last successful POST
    m_pc,                       \* position of the caller inside list_programs
    m_attempt,                  \* the loop variable `attempt` of list_programs' wrapper
    m_call,                     \* history of the business request in progress
    m_gt,                       \* what the get_token() of the step just taken did
    m_outcome,                  \* how the last list_programs call ended
    m_ops,                      \* number of operations started
    m_tally,                    \* history: timestamps recorded, requests sent, requests given up
    \* ---- FortiOS-Monitor-Script: the monitors and their threads
    is_running,                 \* per monitor: self.is_running
    mon_pc,                     \* per monitor thread: position inside continuous_monitor
    mon_k,                      \* per monitor thread: turns left in `for _ in range(interval)`
    mon_late,                   \* history: snapshots and sleeps entered after the flag was cleared
    mon_at_stop,                \* history: where the thread was when stop() cleared the flag
    mon_interval,               \* the interval start_monitoring was called with
    mm_running,                 \* MultiFortiGateMonitor.running
    main_pc,                    \* position of the main thread
    mm_next,                    \* start_monitoring: the next monitor to start
    mm_stop,                    \* stop_all: the next monitor to stop
    \* ---- the batch loops (bulk_provision, suspend_customer, suspend_entitlements)
    b_kind,                     \* which of the three loops runs
    b_items,                    \* the batch: the status of each item
    b_i,                        \* the item the for loop is at
    b_success, b_failed,        \* the success list and the failure list (item numbers)
    b_skipped,                  \* suspend_entitlements: results['already_stopped']
    b_attempted,                \* history: the items whose call was made
    \* ---- fortiztp.scripts.ScriptManager.create
    s_pc,                       \* position inside create
    s_content_len,              \* len(content)
    s_oid,                      \* script_oid (None before the metadata POST succeeds)
    s_uploads,                  \* history: what each content upload met
    s_result,                   \* the dictionary returned
    s_error,                    \* the exception raised
    s_ops,                      \* number of create calls made
    \* ---- create_config of FortiFlexClient and of FortiFlexMSSP
    cfg_client,                 \* the class whose create_config is called
    cfg_program_sn,             \* self.program_sn
    cfg_args,                   \* the arguments of the call
    cfg_pc,                     \* "called", "sent", "returned" or "raised"
    cfg_payload,                \* the dictionary handed to _make_request
    cfg_response,               \* the JSON document the server answered with
    cfg_result,                 \* what create_config returned
    \* ---- the requests library installed
    decode_error_is_request_exception   \* JSONDecodeError derives from RequestException

rlVars == <<max_per_minute, max_per_hour, minute_calls, hour_calls, lock,
            rl_pc, rl_now, rl_wake, rl_released, rl_calls>>

crlVars == <<c_minute_calls, c_hour_calls, c_pc, c_now, c_tmp, c_wake,
             c_released, c_done, c_calls>>

ztpVars == <<z_access_token, z_token_expiry_time, z_issued_at, z_expires_in,
             z_auth_calls, z_pc, z_call, z_outcome, z_gt, z_ops, z_discarded>>

retryVars == <<r_max_retries, r_base_delay, r_max_delay, r_attempt, r_pc,
               r_replies, r_sleeps, r_calls, r_result, r_error>>

msspVars == <<m_access_token, m_refresh_token, m_token_expires_at,
              m_asset_token, m_asset_token_expires_at, m_posts, m_last_auth,
              m_pc, m_attempt, m_call, m_gt, m_outcome, m_ops, m_tally>>

\* the components above the limiters, the ZTP client and the retry loop
monVars == <<is_running, mon_pc, mon_k, mon_late, mon_at_stop, mon_interval,
             mm_running, main_pc, mm_next, mm_stop>>

batchVars == <<b_kind, b_items, b_i, b_success, b_failed, b_skipped, b_attempted>>

scriptVars == <<s_pc, s_content_len, s_oid, s_uploads, s_result, s_error, s_ops>>

cfgVars == <<cfg_client, cfg_program_sn, cfg_args, cfg_pc, cfg_payload,
             cfg_response, cfg_result>>

\* the components added last
extraVars == <<cfgVars, decode_error_is_request_exception>>

appVars == <<msspVars, monVars, batchVars, scriptVars, extraVars>>

vars == <<clock, ticks, rlVars, crlVars, ztpVars, retryVars, appVars>>

\* what each component leaves alone
rlOther == <<crlVars, ztpVars, retryVars, appVars>>
crlOther == <<lock, minute_calls, hour_calls, rl_pc, rl_now, rl_wake,
              rl_released, rl_calls, ztpVars, retryVars, appVars>>
zOther == <<rlVars, crlVars, retryVars, appVars>>
rOther == <<rlVars, crlVars, ztpVars, appVars>>

----------------------------------------------------------------------------
\* Bounds of the model
MaxTicks == 4       \* clock advances explored
MaxCalls == 3       \* wait_if_needed invocations explored
MaxOps == 2         \* FortiZTPClient operations explored
MaxRetriesArg == 3  \* largest max_retries explored
MaxBaseDelay == 2   \* largest base_delay explored
NumThreads == 2     \* concurrent callers of one RateLimiter

\* Program constants
MinuteWindow == 60
\* an hour window shorter than the minute window
ShortHourWindow == MinuteWindow \div 2
HourWindow == 3600
TokenRefreshBuffer == 60    \* self._token_refresh_buffer
DefaultExpiresIn == 3600    \* data.get("expires_in", 3600)

Threads == 1..NumThreads

\* positions at which a caller lets time pass
Sleeping == {"sleep_minute", "sleep_hour"}
Resting == {"idle"} \cup Sleeping

\* Amounts by which the clock may jump between two steps
RateSteps == {5, 55, 3540}

----------------------------------------------------------------------------
\* Sequence helpers

RECURSIVE DropWhileOlder(_, _)
\* while q and q[0] < limit: q.popleft()
DropWhileOlder(q, limit) ==
    IF q # <<>> /\ Head(q) < limit THEN DropWhileOlder(Tail(q), limit) ELSE q

\* number of entries of history h inside the half-open window [from, from+span)
InWindow(h, from, span) ==
    Cardinality({i \in 1..Len(h) : h[i] >= from /\ h[i] < from + span})

----------------------------------------------------------------------------
\* The clock

Tick(d) ==
    /\ ticks < MaxTicks
    /\ d > 0
    /\ clock' = clock + d
    /\ ticks' = ticks + 1

\* time.sleep(s) entered at clock c returns at c + s: the clock does not pass
\* the instant in `wakes` at which a sleeper is due
NotPast(wakes, d) == \A w \in wakes : clock + d <= w

\* the earliest instant at which a sleeper is due
Earliest(wakes) == CHOOSE w \in wakes : \A v \in wakes : w <= v

InitClock == clock = 0 /\ ticks = 0

----------------------------------------------------------------------------
\* fortiflex_client.RateLimiter

CRLInit ==
    /\ c_minute_calls = <<>>
    /\ c_hour_calls = <<>>
    /\ c_pc = [t \in Threads |-> "idle"]
    /\ c_now = [t \in Threads |-> 0]
    /\ c_tmp = [t \in Threads |-> <<>>]
    /\ c_wake = [t \in Threads |-> 0]
    /\ c_released = <<>>
    /\ c_done = <<>>
    /\ c_calls = 0

\* sleep_time = span - (now - q[0])
SleepTime(span, now, q) == span - (now - Head(q))

\* [t for t in calls if t > limit]
KeepNewer(q, limit) == SelectSeq(q, LAMBDA x : x > limit)

\* now = time.time(); the comprehension over self.minute_calls is evaluated
CRLEnter(t) ==
    /\ c_pc[t] = "idle"
    /\ c_calls < MaxCalls
    /\ c_calls' = c_calls + 1
    /\ c_now' = [c_now EXCEPT ![t] = clock]
    /\ c_tmp' = [c_tmp EXCEPT ![t] = KeepNewer(c_minute_calls, clock - MinuteWindow)]
    /\ c_pc' = [c_pc EXCEPT ![t] = "store_minute"]
    /\ UNCHANGED <<clock, ticks, max_per_minute, max_per_hour, c_minute_calls,
                   c_hour_calls, c_wake, c_released, c_done, crlOther>>

\* self.minute_calls = <the list built>; the comprehension over
\* self.hour_calls is evaluated
CRLStoreMinute(t) ==
    /\ c_pc[t] = "store_minute"
    /\ c_minute_calls' = c_tmp[t]
    /\ c_tmp' = [c_tmp EXCEPT ![t] = KeepNewer(c_hour_calls, c_now[t] - HourWindow)]
    /\ c_pc' = [c_pc EXCEPT ![t] = "store_hour"]
    /\ UNCHANGED <<clock, ticks, max_per_minute, max_per_hour, c_hour_calls,
                   c_now, c_wake, c_released, c_done, c_calls, crlOther>>

\* self.hour_calls = <the list built>
CRLStoreHour(t) ==
    /\ c_pc[t] = "store_hour"
    /\ c_hour_calls' = c_tmp[t]
    /\ c_tmp' = [c_tmp EXCEPT ![t] = <<>>]
    /\ c_pc' = [c_pc EXCEPT ![t] = "check_minute"]
    /\ UNCHANGED <<clock, ticks, max_per_minute, max_per_hour, c_minute_calls,
                   c_now, c_wake, c_released, c_done, c_calls, crlOther>>

\* if len(self.minute_calls) >= self.max_per_minute
CRLCheckMinute(t) ==
    /\ c_pc[t] = "check_minute"
    /\ c_pc' = [c_pc EXCEPT ![t] =
                   IF Len(c_minute_calls) >= max_per_minute
                   THEN "read_minute" ELSE "check_hour"]
    /\ UNCHANGED <<clock, ticks, max_per_minute, max_per_hour, c_minute_calls,
                   c_hour_calls, c_now, c_tmp, c_wake, c_released, c_done,
                   c_calls, crlOther>>

\* sleep_time = 60 - (now - self.minute_calls[0]), with the `now` read on
\* entry: IndexError if the list is empty by now; sleep if sleep_time > 0
CRLReadMinute(t) ==
    /\ c_pc[t] = "read_minute"
    /\ IF c_minute_calls = <<>>
       THEN /\ c_pc' = [c_pc EXCEPT ![t] = "IndexError"]
            /\ c_wake' = c_wake
       ELSE IF SleepTime(MinuteWindow, c_now[t], c_minute_calls) > 0
       THEN /\ c_pc' = [c_pc EXCEPT ![t] = "sleep_minute"]
            /\ c_wake' = [c_wake EXCEPT ![t] =
                             clock + SleepTime(MinuteWindow, c_now[t], c_minute_calls)]
       ELSE /\ c_pc' = [c_pc EXCEPT ![t] = "check_hour"]
            /\ c_wake' = c_wake
    /\ UNCHANGED <<clock, ticks, max_per_minute, max_per_hour, c_minute_calls,
                   c_hour_calls, c_now, c_tmp, c_released, c_done, c_calls, crlOther>>

\* time.sleep(sleep_time) of the minute check returns
CRLWakeMinute(t) ==
    /\ c_pc[t] = "sleep_minute"
    /\ clock >= c_wake[t]
    /\ c_pc' = [c_pc EXCEPT ![t] = "check_hour"]
    /\ UNCHANGED <<clock, ticks, max_per_minute, max_per_hour, c_minute_calls,
                   c_hour_calls, c_now, c_tmp, c_wake, c_released, c_done, c_calls,
                   crlOther>>

\* if len(self.hour_calls) >= self.max_per_hour
CRLCheckHour(t) ==
    /\ c_pc[t] = "check_hour"
    /\ c_pc' = [c_pc EXCEPT ![t] =
                   IF Len(c_hour_calls) >= max_per_hour
                   THEN "read_hour" ELSE "append_minute"]
    /\ UNCHANGED <<clock, ticks, max_per_minute, max_per_hour, c_minute_calls,
                   c_hour_calls, c_now, c_tmp, c_wake, c_released, c_done,
                   c_calls, crlOther>>

\* sleep_time = 3600 - (now - self.hour_calls[0]): IndexError if the list is
\* empty by now; sleep if sleep_time > 0
CRLReadHour(t) ==
    /\ c_pc[t] = "read_hour"
    /\ IF c_hour_calls = <<>>
       THEN /\ c_pc' = [c_pc EXCEPT ![t] = "IndexError"]
            /\ c_wake' = c_wake
       ELSE IF SleepTime(HourWindow, c_now[t], c_hour_calls) > 0
       THEN /\ c_pc' = [c_pc EXCEPT ![t] = "sleep_hour"]
            /\ c_wake' = [c_wake EXCEPT ![t] =
                             clock + SleepTime(HourWindow, c_now[t], c_hour_calls)]
       ELSE /\ c_pc' = [c_pc EXCEPT ![t] = "append_minute"]
            /\ c_wake' = c_wake
    /\ UNCHANGED <<clock, ticks, max_per_minute, max_per_hour, c_minute_calls,
                   c_hour_calls, c_now, c_tmp, c_released, c_done, c_calls, crlOther>>

\* time.sleep(sleep_time) of the hour check returns
CRLWakeHour(t) ==
    /\ c_pc[t] = "sleep_hour"
    /\ clock >= c_wake[t]
    /\ c_pc' = [c_pc EXCEPT ![t] = "append_minute"]
    /\ UNCHANGED <<clock, ticks, max_per_minute, max_per_hour, c_minute_calls,
                   c_hour_calls, c_now, c_tmp, c_wake, c_released, c_done, c_calls,
                   crlOther>>

\* self.minute_calls.append(now): `now` is the value read on entry
CRLAppendMinute(t) ==
    /\ c_pc[t] = "append_minute"
    /\ c_minute_calls' = Append(c_minute_calls, c_now[t])
    /\ c_pc' = [c_pc EXCEPT ![t] = "append_hour"]
    /\ UNCHANGED <<clock, ticks, max_per_minute, max_per_hour, c_hour_calls,
                   c_now, c_tmp, c_wake, c_released, c_done, c_calls, crlOther>>

\* self.hour_calls.append(now); wait_if_needed returns
CRLAppendHour(t) ==
    /\ c_pc[t] = "append_hour"
    /\ c_hour_calls' = Append(c_hour_calls, c_now[t])
    /\ c_released' = Append(c_released, clock)
    /\ c_done' = Append(c_done, c_now[t])
    /\ c_pc' = [c_pc EXCEPT ![t] = "idle"]
    /\ UNCHANGED <<clock, ticks, max_per_minute, max_per_hour, c_minute_calls,
                   c_now, c_tmp, c_wake, c_calls, crlOther>>

\* the clock advances while every caller is outside wait_if_needed or inside
\* time.sleep: the other statements take no time
CRLSleepers == {c_wake[t] : t \in {u \in Threads : c_pc[u] \in Sleeping}}

\* a thread that takes no step until time passes: outside the method, asleep,
\* or ended by the exception wait_if_needed raised
CRLResting(t) == c_pc[t] \in Resting \cup {"IndexError"}

CRLTick ==
    /\ \A t \in Threads : CRLResting(t)
    /\ \E d \in RateSteps : Tick(d) /\ NotPast(CRLSleepers, d)
    /\ UNCHANGED <<rlVars, crlVars, ztpVars, retryVars, appVars>>

\* the clock reaches the instant the earliest sleeper is due
CRLTickToWake ==
    /\ \A t \in Threads : CRLResting(t)
    /\ CRLSleepers # {}
    /\ Tick(Earliest(CRLSleepers) - clock)
    /\ UNCHANGED <<rlVars, crlVars, ztpVars, retryVars, appVars>>

CRLStep(t) ==
    \/ CRLEnter(t)
    \/ CRLStoreMinute(t)
    \/ CRLStoreHour(t)
    \/ CRLCheckMinute(t)
    \/ CRLReadMinute(t)
    \/ CRLWakeMinute(t)
    \/ CRLCheckHour(t)
    \/ CRLReadHour(t)
    \/ CRLWakeHour(t)
    \/ CRLAppendMinute(t)
    \/ CRLAppendHour(t)

\* one sequential caller
CRLNextSeq == CRLTick \/ CRLTickToWake \/ CRLStep(1)

\* several threads sharing the instance
CRLNextConc == CRLTick \/ CRLTickToWake \/ \E t \in Threads : CRLStep(t)

\* the limits a RateLimiter is constructed with
LimitsInit ==
    /\ max_per_minute \in {1, 2}
    /\ max_per_hour \in {2, 3}

----------------------------------------------------------------------------
\* fortiflex_mssp.RateLimiter

RLInit ==
    /\ minute_calls = <<>>
    /\ hour_calls = <<>>
    /\ lock = 0
    /\ rl_pc = [t \in Threads |-> "idle"]
    /\ rl_now = [t \in Threads |-> 0]
    /\ rl_wake = [t \in Threads |-> 0]
    /\ rl_released = <<>>
    /\ rl_calls = 0

\* a thread calls wait_if_needed and arrives at `with self.lock`
RLCall(t) ==
    /\ rl_pc[t] = "idle"
    /\ rl_calls < MaxCalls
    /\ rl_calls' = rl_calls + 1
    /\ rl_pc' = [rl_pc EXCEPT ![t] = "at_lock"]
    /\ UNCHANGED <<clock, ticks, max_per_minute, max_per_hour, minute_calls,
                   hour_calls, lock, rl_now, rl_wake, rl_released, rlOther>>

\* a Lock that admits every caller
LockIgnored == TRUE

\* Lock.acquire succeeds only while no thread holds the Lock
LockFree == lock = 0

\* with self.lock: now = time.time(); prune both deques; minute check
RLEnter(t) ==
    /\ rl_pc[t] = "at_lock"
    /\ LockFree
    /\ lock' = t
    /\ rl_now' = [rl_now EXCEPT ![t] = clock]
    /\ LET m == DropWhileOlder(minute_calls, clock - MinuteWindow)
           h == DropWhileOlder(hour_calls, clock - HourWindow)
       IN  /\ minute_calls' = m
           /\ hour_calls' = h
           /\ IF Len(m) >= max_per_minute /\ SleepTime(MinuteWindow, clock, m) > 0
              THEN /\ rl_pc' = [rl_pc EXCEPT ![t] = "sleep_minute"]
                   /\ rl_wake' = [rl_wake EXCEPT ![t] =
                                     clock + SleepTime(MinuteWindow, clock, m)]
              ELSE /\ rl_pc' = [rl_pc EXCEPT ![t] = "check_hour"]
                   /\ rl_wake' = rl_wake
    /\ UNCHANGED <<clock, ticks, max_per_minute, max_per_hour, rl_released,
                   rl_calls, rlOther>>

\* time.sleep(sleep_time) of the minute check returns
RLWakeMinute(t) ==
    /\ rl_pc[t] = "sleep_minute"
    /\ clock >= rl_wake[t]
    /\ rl_pc' = [rl_pc EXCEPT ![t] = "check_hour"]
    /\ UNCHANGED <<clock, ticks, max_per_minute, max_per_hour, minute_calls,
                   hour_calls, lock, rl_now, rl_wake, rl_released, rl_calls, rlOther>>

\* hour check: `now` is still the value read on entry
RLCheckHour(t) ==
    /\ rl_pc[t] = "check_hour"
    /\ IF Len(hour_calls) >= max_per_hour
          /\ SleepTime(HourWindow, rl_now[t], hour_calls) > 0
       THEN /\ rl_pc' = [rl_pc EXCEPT ![t] = "sleep_hour"]
            /\ rl_wake' = [rl_wake EXCEPT ![t] =
                              clock + SleepTime(HourWindow, rl_now[t], hour_calls)]
       ELSE /\ rl_pc' = [rl_pc EXCEPT ![t] = "record"]
            /\ rl_wake' = rl_wake
    /\ UNCHANGED <<clock, ticks, max_per_minute, max_per_hour, minute_calls,
                   hour_calls, lock, rl_now, rl_released, rl_calls, rlOther>>

\* time.sleep(sleep_time) of the hour check returns
RLWakeHour(t) ==
    /\ rl_pc[t] = "sleep_hour"
    /\ clock >= rl_wake[t]
    /\ rl_pc' = [rl_pc EXCEPT ![t] = "record"]
    /\ UNCHANGED <<clock, ticks, max_per_minute, max_per_hour, minute_calls,
                   hour_calls, lock, rl_now, rl_wake, rl_released, rl_calls, rlOther>>

\* now = time.time(); append to both deques; leave the with-block
RLRecord(t) ==
    /\ rl_pc[t] = "record"
    /\ rl_now' = [rl_now EXCEPT ![t] = clock]
    /\ minute_calls' = Append(minute_calls, clock)
    /\ hour_calls' = Append(hour_calls, clock)
    /\ rl_released' = Append(rl_released, clock)
    /\ lock' = 0
    /\ rl_pc' = [rl_pc EXCEPT ![t] = "idle"]
    /\ UNCHANGED <<clock, ticks, max_per_minute, max_per_hour, rl_wake, rl_calls, rlOther>>

\* the clock advances while every caller is outside wait_if_needed or inside
\* time.sleep: the other statements take no time
RLSleepers == {rl_wake[t] : t \in {u \in Threads : rl_pc[u] \in Sleeping}}

\* a thread that takes no step until time passes or the Lock is released
RLResting(t) ==
    \/ rl_pc[t] \in Resting
    \/ rl_pc[t] = "at_lock" /\ ~LockFree

RLTick ==
    /\ \A t \in Threads : RLResting(t)
    /\ \E d \in RateSteps : Tick(d) /\ NotPast(RLSleepers, d)
    /\ UNCHANGED <<rlVars, rlOther>>

\* the clock reaches the instant the earliest sleeper is due
RLTickToWake ==
    /\ \A t \in Threads : RLResting(t)
    /\ RLSleepers # {}
    /\ Tick(Earliest(RLSleepers) - clock)
    /\ UNCHANGED <<rlVars, rlOther>>

RLNext ==
    \/ RLTick
    \/ RLTickToWake
    \/ \E t \in Threads : RLCall(t)
    \/ \E t \in Threads : RLEnter(t)
    \/ \E t \in Threads : RLWakeMinute(t)
    \/ \E t \in Threads : RLCheckHour(t)
    \/ \E t \in Threads : RLWakeHour(t)
    \/ \E t \in Threads : RLRecord(t)

----------------------------------------------------------------------------
\* fortiztp.client.FortiZTPClient and DeviceManager.list

None == 0   \* Python's None; a token is the number of the POST that issued it

\* lifetimes the identity provider may return; Absent: no expires_in field
Absent == -1
ExpiresIn == {Absent, 10, 60, 61, 3600}

\* responses of the identity provider to the POST of _authenticate
AuthResponses ==
    {[status |-> 200, has_token |-> TRUE, expires_in |-> e] : e \in ExpiresIn}
    \cup {[status |-> 200, has_token |-> FALSE, expires_in |-> Absent],
          [status |-> 401, has_token |-> FALSE, expires_in |-> Absent]}

\* _is_token_expired comparing with > (a token is kept one instant too long)
IsTokenExpiredStrict(token, expiry, now) ==
    \/ token = None
    \/ now > expiry - TokenRefreshBuffer

\* _is_token_expired without the refresh buffer
IsTokenExpiredNoBuffer(token, expiry, now) ==
    \/ token = None
    \/ now >= expiry

\* _is_token_expired
IsTokenExpired(token, expiry, now) ==
    \/ token = None
    \/ now >= expiry - TokenRefreshBuffer

\* the responses that matter to get_token: none is read unless it authenticates
ResponsesFor(st, now) ==
    IF IsTokenExpired(st.token, st.expiry, now)
    THEN AuthResponses
    ELSE {[status |-> 200, has_token |-> FALSE, expires_in |-> Absent]}

\* the responses that matter to the get_token after refresh_token: it is not
\* reached when refresh_token raised
ResponsesAfter(st, now) ==
    IF st.ok THEN ResponsesFor(st, now)
    ELSE {[status |-> 200, has_token |-> FALSE, expires_in |-> Absent]}

\* statuses of a business response
Statuses == {200, 401, 404}

\* amounts by which the clock may jump between two steps
TokenSteps == {1, 3539}

\* DeviceManager class attributes
VALID_DEVICE_TYPES == {"FortiGate", "FortiAP", "FortiSwitch", "FortiExtender"}
VALID_PROVISION_TARGETS ==
    {"FortiManager", "FortiGateCloud", "FortiEdgeCloud", "ExternalController"}

NoArgs == [device_type |-> "", provision_status |-> "", provision_target |-> ""]

\* arguments provision is called with: a call that passes the checks, then
\* one that fails each check and one that fails all three; "hidden" is a
\* status list() accepts, "" is provision_target left out (None)
ProvisionArgs ==
    {[device_type |-> "FortiGate", provision_status |-> "provisioned",
      provision_target |-> "FortiManager"],
     [device_type |-> "FortiWeb", provision_status |-> "provisioned",
      provision_target |-> "FortiManager"],
     [device_type |-> "FortiGate", provision_status |-> "hidden",
      provision_target |-> ""],
     [device_type |-> "FortiGate", provision_status |-> "provisioned",
      provision_target |-> "FortiCloud"],
     [device_type |-> "fortigate", provision_status |-> "Provisioned",
      provision_target |-> "fortimanager"]}

\* op: the operation; bearer: the token in the Authorization header of the
\* latest request; refresh: how the refresh_token() after a 401 ended
NoCall == [op |-> "none", args |-> NoArgs, requests |-> 0, bearer |-> None,
           got401 |-> FALSE, refresh |-> "none", auths_after_401 |-> 0,
           retried |-> 0, retry_status |-> 0]

NoGetToken == [invoked |-> FALSE,
               held |-> FALSE, T |-> 0, E |-> 0, at |-> 0, posts |-> 0,
               status |-> 0, has_token |-> FALSE, error |-> "none",
               returned |-> None]

\* __init__: no token, expiry 0
ZInit ==
    /\ z_access_token = None
    /\ z_token_expiry_time = 0
    /\ z_issued_at = 0
    /\ z_expires_in = 0
    /\ z_auth_calls = 0
    /\ z_pc = "idle"
    /\ z_call = NoCall
    /\ z_outcome = "none"
    /\ z_gt = NoGetToken
    /\ z_ops = 0
    /\ z_discarded = {}

\* the client's token state, threaded through the calls of one step
Cur == [token |-> z_access_token, expiry |-> z_token_expiry_time,
        issued |-> z_issued_at, ttl |-> z_expires_in,
        auths |-> z_auth_calls, ok |-> TRUE]

\* data.get("expires_in", 3600)
ExpiresInOf(resp) ==
    IF resp.expires_in = Absent THEN DefaultExpiresIn ELSE resp.expires_in

\* _authenticate storing whatever a 200 response holds
AuthenticateAnyBody(st, resp, now) ==
    LET posted == [st EXCEPT !.auths = @ + 1]
    IN  IF resp.status # 200
        THEN [posted EXCEPT !.ok = FALSE]
        ELSE [posted EXCEPT !.token = posted.auths,
                            !.expiry = now + ExpiresInOf(resp),
                            !.issued = now,
                            !.ttl = ExpiresInOf(resp),
                            !.ok = TRUE]

\* _authenticate: one POST; AuthenticationError unless 200 with an access_token
Authenticate(st, resp, now) ==
    LET posted == [st EXCEPT !.auths = @ + 1]
    IN  IF resp.status # 200 \/ ~resp.has_token
        THEN [posted EXCEPT !.ok = FALSE]
        ELSE [posted EXCEPT !.token = posted.auths,
                            !.expiry = now + ExpiresInOf(resp),
                            !.issued = now,
                            !.ttl = ExpiresInOf(resp),
                            !.ok = TRUE]

\* get_token returning self._access_token whatever _authenticate raised
GetTokenSwallowing(st, resp, now) ==
    IF IsTokenExpired(st.token, st.expiry, now)
    THEN [Authenticate(st, resp, now) EXCEPT !.ok = TRUE]
    ELSE [st EXCEPT !.ok = TRUE]

\* get_token
GetToken(st, resp, now) ==
    IF IsTokenExpired(st.token, st.expiry, now)
    THEN Authenticate(st, resp, now)
    ELSE [st EXCEPT !.ok = TRUE]

\* refresh_token that authenticates without dropping the token held
RefreshTokenKeeping(st, resp, now) ==
    Authenticate(st, resp, now)

\* refresh_token
RefreshToken(st, resp, now) ==
    Authenticate([st EXCEPT !.token = None], resp, now)

\* what one get_token() invocation found and did; resp is the response its
\* POST met, if it made one
GtRecord(pre, post, now, resp) ==
    [invoked |-> TRUE,
     held |-> pre.token # None, T |-> pre.issued, E |-> pre.ttl, at |-> now,
     posts |-> post.auths - pre.auths,
     status |-> IF post.auths > pre.auths THEN resp.status ELSE 0,
     has_token |-> post.auths > pre.auths /\ resp.has_token,
     error |-> IF post.ok THEN "none" ELSE "AuthenticationError",
     returned |-> IF post.ok THEN post.token ELSE None]

Store(st) ==
    /\ z_access_token' = st.token
    /\ z_token_expiry_time' = st.expiry
    /\ z_issued_at' = st.issued
    /\ z_expires_in' = st.ttl
    /\ z_auth_calls' = st.auths

\* provision checking device_type and provision_status only
ProvisionArgsValidAnyTarget(device_type, provision_status, provision_target) ==
    /\ device_type \in VALID_DEVICE_TYPES
    /\ provision_status \in {"provisioned", "unprovisioned"}

\* provision: the three checks that raise ValueError
ProvisionArgsValid(device_type, provision_status, provision_target) ==
    /\ device_type \in VALID_DEVICE_TYPES
    /\ provision_status \in {"provisioned", "unprovisioned"}
    /\ ~(provision_target # "" /\ provision_target \notin VALID_PROVISION_TARGETS)

\* the tokens discarded so far, and the one held as refresh_token() is entered
Discard(token) == IF token = None THEN z_discarded ELSE z_discarded \cup {token}

\* DeviceManager.list and provision after _request returned: APIError unless 200
ListOutcome(status) == IF status = 200 THEN "ok" ELSE "APIError"

\* a caller invokes client.get_token()
ZGetToken ==
    /\ z_pc = "idle"
    /\ z_ops < MaxOps
    /\ z_ops' = z_ops + 1
    /\ \E resp \in ResponsesFor(Cur, clock) :
          LET st == GetToken(Cur, resp, clock)
          IN  /\ Store(st)
              /\ z_gt' = GtRecord(Cur, st, clock, resp)
              /\ z_outcome' = IF st.ok THEN "ok" ELSE "AuthenticationError"
    /\ z_call' = [NoCall EXCEPT !.op = "get_token"]
    /\ UNCHANGED <<clock, ticks, z_pc, z_discarded, zOther>>

\* DeviceManager.list -> _request: headers = self._headers(), first request sent
ZRequestStart ==
    /\ z_pc = "idle"
    /\ z_ops < MaxOps
    /\ z_ops' = z_ops + 1
    /\ \E resp \in ResponsesFor(Cur, clock) :
          LET st == GetToken(Cur, resp, clock)
          IN  /\ Store(st)
              /\ z_gt' = GtRecord(Cur, st, clock, resp)
              /\ IF st.ok
                 THEN /\ z_pc' = "sent1"
                      /\ z_call' = [NoCall EXCEPT !.op = "list", !.requests = 1,
                                                  !.bearer = st.token]
                      /\ z_outcome' = "none"
                 ELSE /\ z_pc' = "idle"
                      /\ z_call' = [NoCall EXCEPT !.op = "list"]
                      /\ z_outcome' = "AuthenticationError"
    /\ UNCHANGED <<clock, ticks, z_discarded, zOther>>

\* DeviceManager.provision: ValueError before anything else for arguments that
\* fail a check; else the payload is built and _request is entered: headers =
\* self._headers(), first request sent
ZProvision ==
    /\ z_pc = "idle"
    /\ z_ops < MaxOps
    /\ z_ops' = z_ops + 1
    /\ \E args \in ProvisionArgs :
          LET call == [NoCall EXCEPT !.op = "provision", !.args = args]
          IN  IF ~ProvisionArgsValid(args.device_type, args.provision_status,
                                     args.provision_target)
              THEN /\ z_pc' = "idle"
                   /\ z_call' = call
                   /\ z_outcome' = "ValueError"
                   /\ z_gt' = NoGetToken
                   /\ UNCHANGED <<z_access_token, z_token_expiry_time,
                                  z_issued_at, z_expires_in, z_auth_calls>>
              ELSE \E resp \in ResponsesFor(Cur, clock) :
                      LET st == GetToken(Cur, resp, clock)
                      IN  /\ Store(st)
                          /\ z_gt' = GtRecord(Cur, st, clock, resp)
                          /\ IF st.ok
                             THEN /\ z_pc' = "sent1"
                                  /\ z_call' = [call EXCEPT !.requests = 1,
                                                            !.bearer = st.token]
                                  /\ z_outcome' = "none"
                             ELSE /\ z_pc' = "idle"
                                  /\ z_call' = call
                                  /\ z_outcome' = "AuthenticationError"
    /\ UNCHANGED <<clock, ticks, z_discarded, zOther>>

\* a caller invokes client.refresh_token(): the token held is dropped, then
\* _authenticate
ZRefreshToken ==
    /\ z_pc = "idle"
    /\ z_ops < MaxOps
    /\ z_ops' = z_ops + 1
    /\ z_discarded' = Discard(z_access_token)
    /\ \E resp \in AuthResponses :
          LET st == RefreshToken(Cur, resp, clock)
          IN  /\ Store(st)
              /\ z_outcome' = IF st.ok THEN "ok" ELSE "AuthenticationError"
    /\ z_call' = [NoCall EXCEPT !.op = "refresh_token"]
    /\ z_gt' = NoGetToken
    /\ UNCHANGED <<clock, ticks, z_pc, zOther>>

\* the first response is not 401: _request returns it to DeviceManager.list
ZResponse1 ==
    /\ z_pc = "sent1"
    /\ \E status \in Statuses \ {401} :
          z_outcome' = ListOutcome(status)
    /\ z_pc' = "idle"
    /\ z_gt' = NoGetToken
    /\ UNCHANGED <<clock, ticks, z_access_token, z_token_expiry_time, z_issued_at,
                   z_expires_in, z_auth_calls, z_call, z_ops, z_discarded, zOther>>

\* the first response is 401: refresh_token(), headers = self._headers(),
\* second request sent
ZResponse401 ==
    /\ z_pc = "sent1"
    /\ \E r1 \in AuthResponses :
       \E r2 \in ResponsesAfter(RefreshToken(Cur, r1, clock), clock) :
          LET st1 == RefreshToken(Cur, r1, clock)
              st2 == IF st1.ok THEN GetToken(st1, r2, clock) ELSE st1
              call == [z_call EXCEPT !.got401 = TRUE,
                                     !.refresh =
                                         IF r1.status = 200 /\ r1.has_token
                                         THEN "ok" ELSE "failed",
                                     !.auths_after_401 = st2.auths - z_auth_calls]
          IN  /\ Store(st2)
              /\ z_gt' = IF st1.ok THEN GtRecord(st1, st2, clock, r2) ELSE NoGetToken
              /\ IF st2.ok
                 THEN /\ z_pc' = "sent2"
                      /\ z_call' = [call EXCEPT !.requests = @ + 1, !.retried = @ + 1,
                                                !.bearer = st2.token]
                      /\ z_outcome' = "none"
                 ELSE /\ z_pc' = "idle"
                      /\ z_call' = call
                      /\ z_outcome' = "AuthenticationError"
    /\ z_discarded' = Discard(z_access_token)
    /\ UNCHANGED <<clock, ticks, z_ops, zOther>>

\* the response to the retried request: _request returns it whatever its status
ZResponse2 ==
    /\ z_pc = "sent2"
    /\ \E status \in Statuses :
          /\ z_outcome' = ListOutcome(status)
          /\ z_call' = [z_call EXCEPT !.retry_status = status]
    /\ z_pc' = "idle"
    /\ z_gt' = NoGetToken
    /\ UNCHANGED <<clock, ticks, z_access_token, z_token_expiry_time, z_issued_at,
                   z_expires_in, z_auth_calls, z_ops, z_discarded, zOther>>

\* time passes between two operations; the record of the call that has ended
\* is cleared
ZTick ==
    /\ z_pc = "idle"
    /\ \E d \in TokenSteps : Tick(d)
    /\ z_gt' = NoGetToken
    /\ z_call' = NoCall
    /\ z_outcome' = "none"
    /\ UNCHANGED <<zOther, z_access_token, z_token_expiry_time,
                   z_issued_at, z_expires_in, z_auth_calls, z_pc,
                   z_ops, z_discarded>>

ZNext ==
    \/ ZTick
    \/ ZGetToken
    \/ ZRequestStart
    \/ ZRefreshToken
    \/ ZResponse1
    \/ ZResponse401
    \/ ZResponse2

\* a caller that only provisions devices
ZProvisionNext ==
    \/ ZTick
    \/ ZProvision
    \/ ZResponse1
    \/ ZResponse401
    \/ ZResponse2

----------------------------------------------------------------------------
\* retry_with_backoff (fortiflex_mssp decorator; the fortiflex_client function
\* has the same loop) around FortiFlexMSSP._make_request

NetworkFailure == 0     \* the request met no HTTP response

\* what a physical request may meet: an HTTP status or a network failure
Replies == {NetworkFailure, 200, 400, 401, 429, 500, 503}

\* values of max_delay explored: one that caps the delays, and the default
MaxDelays == {3, 60}

NoError == [type |-> "none", status |-> 0, response |-> 0]

\* a call not started; max_retries is the default of the decorator
RParked ==
    /\ r_max_retries = 3 /\ r_base_delay = 1 /\ r_max_delay = 60
    /\ r_attempt = 0
    /\ r_pc = "running"
    /\ r_replies = <<>>
    /\ r_sleeps = <<>>
    /\ r_calls = 0
    /\ r_result = 0
    /\ r_error = NoError

\* a decorated call is entered with the arguments the decorator was given
RInit ==
    /\ r_max_retries \in 0..MaxRetriesArg
    /\ r_base_delay \in 1..MaxBaseDelay
    /\ r_max_delay \in MaxDelays
    /\ r_attempt = 0
    /\ r_pc = "running"
    /\ r_replies = <<>>
    /\ r_sleeps = <<>>
    /\ r_calls = 0
    /\ r_result = 0
    /\ r_error = NoError

Min(a, b) == IF a <= b THEN a ELSE b

\* the delay without its cap
BackoffDelayUncapped(base, attempt, maxd) == base * (2 ^ attempt)

\* delay = min(base_delay * (2 ** attempt), max_delay)
BackoffDelay(base, attempt, maxd) == Min(base * (2 ^ attempt), maxd)

\* a handler that also retries a 500
IsTransientStatusOr500(status) == status \in {429, 500, 503}

\* e.response.status_code in [429, 503]
IsTransientStatus(status) == status \in {429, 503}

\* _make_request: requests.request raises on a network failure,
\* raise_for_status raises HTTPError from 400 up, else response.json() returns
MakeRequest(reply, n) ==
    IF reply = NetworkFailure
    THEN [type |-> "RequestException", status |-> 0, response |-> 0]
    ELSE IF reply >= 400
         THEN [type |-> "HTTPError", status |-> reply, response |-> n]
         ELSE NoError

\* the exception raised once the loop has run out
Exhausted == [type |-> "Exception", status |-> 0, response |-> 0]

\* a loop that makes one pass more than range(max_retries)
LoopRunsOutLate(attempt, max_retries) == attempt > max_retries

\* `for attempt in range(max_retries)` has no value left
LoopRunsOut(attempt, max_retries) == attempt >= max_retries

\* one pass of the loop body: the call, and the handler of what it raised
RAttempt ==
    /\ r_pc = "running"
    /\ ~LoopRunsOut(r_attempt, r_max_retries)
    /\ \E reply \in Replies :
          LET n == r_calls + 1
              e == MakeRequest(reply, n)
          IN  /\ r_calls' = n
              /\ r_replies' = Append(r_replies, reply)
              /\ IF e = NoError
                 THEN /\ r_pc' = "returned"
                      /\ r_result' = n
                      /\ UNCHANGED <<r_attempt, r_sleeps, r_error>>
                 ELSE IF e.type = "HTTPError" /\ ~IsTransientStatus(e.status)
                 THEN /\ r_pc' = "raised"
                      /\ r_error' = e
                      /\ UNCHANGED <<r_attempt, r_sleeps, r_result>>
                 ELSE /\ r_sleeps' = Append(r_sleeps,
                             BackoffDelay(r_base_delay, r_attempt, r_max_delay))
                      /\ r_attempt' = r_attempt + 1
                      /\ UNCHANGED <<r_pc, r_result, r_error>>
    /\ UNCHANGED <<clock, ticks, rOther, r_max_retries,
                   r_base_delay, r_max_delay>>

\* range(max_retries) is used up: raise Exception("... Failed after ...")
RExhaust ==
    /\ r_pc = "running"
    /\ LoopRunsOut(r_attempt, r_max_retries)
    /\ r_pc' = "raised"
    /\ r_error' = Exhausted
    /\ UNCHANGED <<clock, ticks, rOther, r_max_retries,
                   r_base_delay, r_max_delay, r_attempt, r_replies, r_sleeps,
                   r_calls, r_result>>

\* the caller makes the next decorated call
RAgain ==
    /\ r_pc \in {"returned", "raised"}
    /\ r_pc' = "running"
    /\ r_attempt' = 0
    /\ r_replies' = <<>>
    /\ r_sleeps' = <<>>
    /\ r_calls' = 0
    /\ r_result' = 0
    /\ r_error' = NoError
    /\ UNCHANGED <<clock, ticks, rOther, r_max_retries,
                   r_base_delay, r_max_delay>>

RNext == RAttempt \/ RExhaust \/ RAgain

\* fortiflex_client.retry_with_backoff(func) around an operation of
\* FortiFlexClient (same loop; func is a call of FortiFlexClient._make_request)

\* what the body of a response may be: a JSON object, another JSON value,
\* or text that is not JSON
Bodies == {"object", "array", "not_json"}

\* FortiFlexClient._make_request: requests.post raises on a network failure;
\* from status 400 up raise_for_status raises HTTPError and the handler reads
\* response.json(): for an object it raises Exception(...) from e, for another
\* JSON value .get raises AttributeError, and for a body that is not JSON the
\* bare raise passes on the decoding error being handled; below 400 the
\* document is returned, or response.json() raises
ClientMakeRequest(reply, body, n) ==
    IF reply = NetworkFailure
    THEN [type |-> "RequestException", status |-> 0, response |-> 0]
    ELSE IF body = "not_json"
         THEN [type |-> "JSONDecodeError", status |-> 0, response |-> n]
         ELSE IF reply < 400
              THEN NoError
              ELSE IF body = "object"
                   THEN [type |-> "Exception", status |-> 0, response |-> n]
                   ELSE [type |-> "AttributeError", status |-> 0, response |-> n]

\* `except requests.exceptions.HTTPError` with a status in [429, 503], or
\* `except requests.exceptions.RequestException`: sleep and go round again
CaughtAsTransient(e) ==
    \/ e.type = "HTTPError" /\ IsTransientStatus(e.status)
    \/ e.type = "RequestException"
    \/ e.type = "JSONDecodeError" /\ decode_error_is_request_exception

\* one pass of the loop body: func(), and the handler of what it raised
CRAttempt ==
    /\ r_pc = "running"
    /\ ~LoopRunsOut(r_attempt, r_max_retries)
    /\ \E reply \in Replies, body \in Bodies :
          LET n == r_calls + 1
              e == ClientMakeRequest(reply, body, n)
          IN  /\ r_calls' = n
              /\ r_replies' = Append(r_replies, reply)
              /\ IF e = NoError
                 THEN /\ r_pc' = "returned"
                      /\ r_result' = n
                      /\ UNCHANGED <<r_attempt, r_sleeps, r_error>>
                 ELSE IF ~CaughtAsTransient(e)
                 THEN /\ r_pc' = "raised"
                      /\ r_error' = e
                      /\ UNCHANGED <<r_attempt, r_sleeps, r_result>>
                 ELSE /\ r_sleeps' = Append(r_sleeps,
                             BackoffDelay(r_base_delay, r_attempt, r_max_delay))
                      /\ r_attempt' = r_attempt + 1
                      /\ UNCHANGED <<r_pc, r_result, r_error>>
    /\ UNCHANGED <<clock, ticks, rOther, r_max_retries,
                   r_base_delay, r_max_delay>>

CRNext == CRAttempt \/ RExhaust \/ RAgain

----------------------------------------------------------------------------
\* fortiflex_mssp.FortiFlexMSSP: the two token profiles and list_programs
\* (datetime.now() is the clock)

ClientIds == {"flexvm", "assetmanagement"}

RefreshMargin == 300            \* if time_remaining < 300
GetTokenMaxRetries == 3         \* @retry_with_backoff(max_retries=3)
DefaultMaxRetries == 3          \* retry_with_backoff(max_retries=3, ...)
DefaultBaseDelay == 1           \* retry_with_backoff(..., base_delay=1, ...)
DefaultMaxDelay == 60           \* retry_with_backoff(..., max_delay=60)

\* what the POST of get_token may meet
TokenReplies == {200, 401, 503}

\* one reply for each pass the wrapper of get_token can make
TokenReplySeqs == [1..GetTokenMaxRetries -> TokenReplies]

\* lifetimes the token endpoint may return; Absent: no expires_in field
MsspExpiresIn == {Absent}

\* what the request of list_programs may meet
BusinessReplies == {NetworkFailure, 200, 400, 503}

\* amounts by which the clock may jump between two operations
MsspSteps == {3300}

\* recorded: timestamps wait_if_needed appended for _make_request; sent:
\* business requests sent; refused: _make_request calls that _check_token_expiry
\* ended before the request
NoTally == [recorded |-> 0, sent |-> 0, refused |-> 0]

\* the wrapper calling the request again without the function around it
RetryFromRequest == "http"

\* `continue` in the wrapper: func(*args, **kwargs) is called again, from the
\* evaluation of its arguments on
RetryFrom == "headers"

NoRequest == [steps |-> <<>>, bearer |-> None, held |-> None,
              refreshed |-> FALSE, sent |-> FALSE]

NoTokenCall == [invoked |-> FALSE, client_id |-> "flexvm", posts |-> 0,
                replies |-> <<>>, error |-> "none", at |-> 0,
                pre |-> <<None, None, 0, None, 0>>]

\* the client's token state, threaded through the calls of one step
MCur == [access_token |-> m_access_token,
         refresh_token |-> m_refresh_token,
         token_expires_at |-> m_token_expires_at,
         asset_token |-> m_asset_token,
         asset_token_expires_at |-> m_asset_token_expires_at,
         posts |-> m_posts,
         now |-> clock, error |-> "none"]

\* the five attributes holding the two profiles
Profiles(st) == <<st.access_token, st.refresh_token, st.token_expires_at,
                  st.asset_token, st.asset_token_expires_at>>

\* get_token storing every token in the flexvm attributes
StoreTokenShared(st, client_id, expires_in) ==
    [st EXCEPT !.access_token = st.posts,
               !.refresh_token = st.posts,
               !.token_expires_at = st.now + expires_in]

\* the body of get_token after response.json(): the branch on client_id
StoreToken(st, client_id, expires_in) ==
    IF client_id = "flexvm"
    THEN [st EXCEPT !.access_token = st.posts,
                    !.refresh_token = st.posts,
                    !.token_expires_at = st.now + expires_in]
    ELSE [st EXCEPT !.asset_token = st.posts,
                    !.asset_token_expires_at = st.now + expires_in]

RECURSIVE GetTokenFrom(_, _, _, _, _)
\* get_token under its retry_with_backoff(max_retries=3) wrapper, from the
\* pass `attempt` on: each pass POSTs; 429/503 and network failures sleep and
\* go round again, another HTTP error is re-raised, and a used-up range raises
\* Exception
GetTokenFrom(st, client_id, replies, expires_in, attempt) ==
    IF attempt >= GetTokenMaxRetries
    THEN [st EXCEPT !.error = "Exception"]
    ELSE LET reply == replies[attempt + 1]
             posted == [st EXCEPT !.posts = @ + 1]
         IN  IF reply = NetworkFailure \/ IsTransientStatus(reply)
             THEN GetTokenFrom(
                      [posted EXCEPT !.now = @ + BackoffDelay(DefaultBaseDelay,
                                                   attempt, DefaultMaxDelay)],
                      client_id, replies, expires_in, attempt + 1)
             ELSE IF reply >= 400
             THEN [posted EXCEPT !.error = "HTTPError"]
             ELSE StoreToken(posted, client_id, expires_in)

\* get_token(client_id)
MsspGetToken(st, client_id, replies, ttl) ==
    GetTokenFrom(st, client_id, replies,
                 IF ttl = Absent THEN DefaultExpiresIn ELSE ttl, 0)

\* the replies a get_token() read, among those on offer
RepliesRead(pre, post, replies) == SubSeq(replies, 1, post.posts - pre.posts)

\* what one get_token() invocation found and did
TokenCall(pre, post, client_id, replies) ==
    [invoked |-> TRUE, client_id |-> client_id,
     posts |-> post.posts - pre.posts,
     replies |-> RepliesRead(pre, post, replies),
     error |-> post.error, at |-> pre.now, pre |-> Profiles(pre)]

\* per profile, the token issued by its most recent successful POST
LastAuth(st, client_id) ==
    IF st.error = "none"
    THEN [m_last_auth EXCEPT ![client_id] = st.posts]
    ELSE m_last_auth

MStore(st) ==
    /\ m_access_token' = st.access_token
    /\ m_refresh_token' = st.refresh_token
    /\ m_token_expires_at' = st.token_expires_at
    /\ m_asset_token' = st.asset_token
    /\ m_asset_token_expires_at' = st.asset_token_expires_at
    /\ m_posts' = st.posts
    /\ clock' = st.now

\* __init__ has returned: its get_token() stored the flexvm token of the first
\* POST; no asset token yet
MInit ==
    /\ m_access_token = 1
    /\ m_refresh_token = 1
    /\ m_token_expires_at \in {300, DefaultExpiresIn}
    /\ m_asset_token = None
    /\ m_asset_token_expires_at = None
    /\ m_posts = 1
    /\ m_last_auth = [c \in ClientIds |-> IF c = "flexvm" THEN 1 ELSE None]
    /\ m_pc = "idle"
    /\ m_attempt = 0
    /\ m_call = NoRequest
    /\ m_gt = NoTokenCall
    /\ m_outcome = "none"
    /\ m_ops = 0
    /\ m_tally = NoTally

mOther == <<rlVars, crlVars, ztpVars, retryVars, monVars, batchVars, scriptVars,
            extraVars>>

\* FortiFlexMSSP(...) is being called: the attributes as __init__ sets them
\* before its get_token()
MNew ==
    /\ m_access_token = None
    /\ m_refresh_token = None
    /\ m_token_expires_at = None
    /\ m_asset_token = None
    /\ m_asset_token_expires_at = None
    /\ m_posts = 0
    /\ m_last_auth = [c \in ClientIds |-> None]
    /\ m_pc = "new"
    /\ m_attempt = 0
    /\ m_call = NoRequest
    /\ m_gt = NoTokenCall
    /\ m_outcome = "none"
    /\ m_ops = 0
    /\ m_tally = NoTally

\* __init__: ValueError without credentials; else the attributes are set and
\* self.get_token() is called; what it raises leaves the constructor
MConstruct ==
    /\ m_pc = "new"
    /\ \E has_credentials \in BOOLEAN :
          IF ~has_credentials
          THEN /\ m_pc' = "failed"
               /\ m_outcome' = "ValueError"
               /\ UNCHANGED <<clock, m_access_token, m_refresh_token,
                              m_token_expires_at, m_asset_token,
                              m_asset_token_expires_at, m_posts, m_last_auth, m_gt>>
          ELSE \E replies \in TokenReplySeqs, ttl \in MsspExpiresIn :
                  LET st == MsspGetToken(MCur, "flexvm", replies, ttl)
                  IN  /\ MStore(st)
                      /\ m_last_auth' = LastAuth(st, "flexvm")
                      /\ m_gt' = TokenCall(MCur, st, "flexvm", replies)
                      /\ m_pc' = IF st.error = "none" THEN "idle" ELSE "failed"
                      /\ m_outcome' = st.error
    /\ UNCHANGED <<ticks, m_attempt, m_call, m_ops, m_tally, mOther>>

\* a caller invokes client.get_token(client_id)
MGetTokenCall ==
    /\ m_pc = "idle"
    /\ m_ops < MaxOps
    /\ m_ops' = m_ops + 1
    /\ \E client_id \in ClientIds, replies \in TokenReplySeqs, ttl \in MsspExpiresIn :
          LET st == MsspGetToken(MCur, client_id, replies, ttl)
          IN  /\ MStore(st)
              /\ m_last_auth' = LastAuth(st, client_id)
              /\ m_gt' = TokenCall(MCur, st, client_id, replies)
    /\ m_call' = NoRequest
    /\ m_outcome' = "none"
    /\ UNCHANGED <<ticks, m_pc, m_attempt, m_tally, mOther>>

\* a caller invokes list_programs(): the wrapper enters its loop
MStart ==
    /\ m_pc = "idle"
    /\ m_ops < MaxOps
    /\ m_ops' = m_ops + 1
    /\ m_pc' = "headers"
    /\ m_attempt' = 0
    /\ m_call' = NoRequest
    /\ m_gt' = NoTokenCall
    /\ m_outcome' = "none"
    /\ UNCHANGED <<clock, ticks, m_access_token, m_refresh_token,
                   m_token_expires_at, m_asset_token, m_asset_token_expires_at,
                   m_posts, m_last_auth, m_tally, mOther>>

\* list_programs evaluates headers=self._get_headers(), the argument of
\* _make_request: the Authorization header is built from self.access_token
MHeaders ==
    /\ m_pc = "headers"
    /\ m_call' = [NoRequest EXCEPT !.steps = <<"headers">>,
                                   !.bearer = m_access_token]
    /\ m_pc' = "wait"
    /\ m_gt' = NoTokenCall
    /\ UNCHANGED <<clock, ticks, m_access_token, m_refresh_token,
                   m_token_expires_at, m_asset_token, m_asset_token_expires_at,
                   m_posts, m_last_auth, m_attempt, m_outcome, m_ops, m_tally,
                   mOther>>

\* _make_request: self.rate_limiter.wait_if_needed() has returned
MWait ==
    /\ m_pc = "wait"
    /\ m_call' = [m_call EXCEPT !.steps = Append(@, "wait")]
    /\ m_tally' = [m_tally EXCEPT !.recorded = @ + 1]
    /\ m_pc' = "check"
    /\ UNCHANGED <<clock, ticks, m_access_token, m_refresh_token,
                   m_token_expires_at, m_asset_token, m_asset_token_expires_at,
                   m_posts, m_last_auth, m_attempt, m_gt, m_outcome, m_ops, mOther>>

\* time_remaining < 300
NeedsRefresh(expires_at, now) == expires_at - now < RefreshMargin

\* _make_request: self._check_token_expiry(); what get_token raises leaves
\* list_programs through its wrapper (a 401 is re-raised, an Exception is not
\* caught)
MCheck ==
    /\ m_pc = "check"
    /\ IF NeedsRefresh(m_token_expires_at, clock)
       THEN \E replies \in TokenReplySeqs, ttl \in MsspExpiresIn :
               LET st == MsspGetToken(MCur, "flexvm", replies, ttl)
               IN  /\ MStore(st)
                   /\ m_last_auth' = LastAuth(st, "flexvm")
                   /\ m_gt' = TokenCall(MCur, st, "flexvm", replies)
                   /\ m_call' = [m_call EXCEPT !.steps = Append(@, "check"),
                                               !.refreshed = st.error = "none",
                                               !.held = st.access_token]
                   /\ IF st.error = "none"
                      THEN /\ m_pc' = "http" /\ m_outcome' = m_outcome
                           /\ m_tally' = m_tally
                      ELSE /\ m_pc' = "idle" /\ m_outcome' = st.error
                           /\ m_tally' = [m_tally EXCEPT !.refused = @ + 1]
       ELSE /\ m_call' = [m_call EXCEPT !.steps = Append(@, "check"),
                                        !.held = m_access_token]
            /\ m_pc' = "http"
            /\ UNCHANGED <<clock, m_access_token, m_refresh_token,
                           m_token_expires_at, m_asset_token,
                           m_asset_token_expires_at, m_posts, m_last_auth,
                           m_gt, m_outcome, m_tally>>
    /\ UNCHANGED <<ticks, m_attempt, m_ops, mOther>>

\* _make_request: requests.request(method, url, headers=headers) and
\* raise_for_status; then the handlers of list_programs' wrapper
MHttp ==
    /\ m_pc = "http"
    /\ m_call' = [m_call EXCEPT !.steps = Append(@, "http"), !.sent = TRUE]
    /\ m_tally' = [m_tally EXCEPT !.sent = @ + 1]
    /\ \E reply \in BusinessReplies :
          LET e == MakeRequest(reply, m_attempt + 1)
          IN  IF e = NoError
              THEN /\ m_pc' = "idle" /\ m_outcome' = "ok"
                   /\ UNCHANGED <<clock, m_attempt>>
              ELSE IF e.type = "HTTPError" /\ ~IsTransientStatus(e.status)
              THEN /\ m_pc' = "idle" /\ m_outcome' = "HTTPError"
                   /\ UNCHANGED <<clock, m_attempt>>
              ELSE /\ clock' = clock + BackoffDelay(DefaultBaseDelay, m_attempt,
                                                    DefaultMaxDelay)
                   /\ m_attempt' = m_attempt + 1
                   /\ IF m_attempt + 1 < DefaultMaxRetries
                      THEN m_pc' = RetryFrom /\ m_outcome' = m_outcome
                      ELSE m_pc' = "idle" /\ m_outcome' = "Exception"
    /\ m_gt' = NoTokenCall
    /\ UNCHANGED <<ticks, m_access_token, m_refresh_token, m_token_expires_at,
                   m_asset_token, m_asset_token_expires_at, m_posts,
                   m_last_auth, m_ops, mOther>>

\* time passes between two operations
MTick ==
    /\ m_pc = "idle"
    /\ \E d \in MsspSteps : Tick(d)
    /\ m_gt' = NoTokenCall
    /\ m_call' = NoRequest
    /\ m_outcome' = "none"
    /\ UNCHANGED <<m_access_token, m_refresh_token, m_token_expires_at,
                   m_asset_token, m_asset_token_expires_at, m_posts,
                   m_last_auth, m_pc, m_attempt, m_ops, m_tally, mOther>>

\* a client from its construction on
MConstructNext ==
    \/ MConstruct
    \/ MTick
    \/ MGetTokenCall
    \/ MStart
    \/ MHeaders
    \/ MWait
    \/ MCheck
    \/ MHttp

MNext ==
    \/ MTick
    \/ MGetTokenCall
    \/ MStart
    \/ MHeaders
    \/ MWait
    \/ MCheck
    \/ MHttp

----------------------------------------------------------------------------
\* FortiOS-Monitor-Script: FortiGateConserveModeMonitor.continuous_monitor and
\* stop, MultiFortiGateMonitor.start_monitoring, signal_handler and stop_all

NumMonitors == 2    \* monitors added by add_fortigate

\* values of interval explored: one sleep, and more than one, per wait
Intervals == {1, 2}

Monitors == 1..NumMonitors

\* how a monitor_snapshot call, and the duration check after it, may end
SnapshotOutcomes == {"done", "duration_over", "raised"}

NoLate == [snapshots |-> 0, sleeps |-> 0]

\* the flag check that ends the wait between two snapshots is never taken
NeverInterrupted(flag) == FALSE

\* if not self.is_running: break
SleepInterrupted(flag) == ~flag

\* stop_all's loop stopping the first monitor only
StopAllDoneEarly(idx) == idx > 1

\* `for monitor in self.monitors` of stop_all has run out
StopAllDone(idx) == idx > NumMonitors

\* monitors constructed (is_running = True) and added; start_monitoring is
\* called with an interval and has installed the SIGINT handler
MonInit ==
    /\ is_running = [i \in Monitors |-> TRUE]
    /\ mon_pc = [i \in Monitors |-> "not_started"]
    /\ mon_k = [i \in Monitors |-> 0]
    /\ mon_late = [i \in Monitors |-> NoLate]
    /\ mon_at_stop = [i \in Monitors |-> "running"]
    /\ mon_interval \in Intervals
    /\ mm_running = TRUE
    /\ main_pc = "starting"
    /\ mm_next = 1
    /\ mm_stop = 1

\* where stop() found the thread: about to call monitor_snapshot or
\* time.sleep(1) with the flag check behind it, inside one of the two, or
\* elsewhere
AtStop(pc) ==
    IF pc \in {"call_snapshot", "call_sleep", "snapshot", "sleeping"}
    THEN pc ELSE "elsewhere"

\* the monitor threads whose continuous_monitor has not returned
Alive == {i \in Monitors : mon_pc[i] \notin {"not_started", "exited"}}

\* one more event counted after the flag was cleared (counted up to 2)
Later(n) == IF n < 2 THEN n + 1 ELSE n

monOther == <<clock, ticks, rlVars, crlVars, ztpVars, retryVars, msspVars,
              batchVars, scriptVars, extraVars>>

\* start_monitoring: thread.start() for the next monitor; after the last one
\* the wait loop is entered
MainStartThread ==
    /\ main_pc = "starting"
    /\ mm_next <= NumMonitors
    /\ mon_pc' = [mon_pc EXCEPT ![mm_next] = "loop"]
    /\ mm_next' = mm_next + 1
    /\ main_pc' = IF mm_next = NumMonitors THEN "waiting" ELSE "starting"
    /\ UNCHANGED <<is_running, mon_k, mon_late, mon_at_stop, mon_interval,
                   mm_running, mm_stop, monOther>>

\* start_monitoring: `while any(t.is_alive() ...)` finds no thread alive
MainWaitEnds ==
    /\ main_pc = "waiting"
    /\ Alive = {}
    /\ main_pc' = "returned"
    /\ UNCHANGED <<is_running, mon_pc, mon_k, mon_late, mon_at_stop,
                   mon_interval, mm_running, mm_next, mm_stop, monOther>>

\* SIGINT: signal_handler runs in the main thread and enters stop_all:
\* self.running = False
Sigint ==
    /\ main_pc \in {"starting", "waiting"}
    /\ main_pc' = "stop_all"
    /\ mm_running' = FALSE
    /\ UNCHANGED <<is_running, mon_pc, mon_k, mon_late, mon_at_stop,
                   mon_interval, mm_next, mm_stop, monOther>>

\* stop_all: monitor.stop() for the next monitor: self.is_running = False
StopAllStep ==
    /\ main_pc = "stop_all"
    /\ ~StopAllDone(mm_stop)
    /\ is_running' = [is_running EXCEPT ![mm_stop] = FALSE]
    /\ mon_at_stop' = [mon_at_stop EXCEPT ![mm_stop] = AtStop(mon_pc[mm_stop])]
    /\ mm_stop' = mm_stop + 1
    /\ UNCHANGED <<mon_pc, mon_k, mon_late, mon_interval, mm_running, mm_next,
                   main_pc, monOther>>

\* stop_all has returned: sys.exit(0) ends start_monitoring
HandlerExit ==
    /\ main_pc = "stop_all"
    /\ StopAllDone(mm_stop)
    /\ main_pc' = "exited"
    /\ UNCHANGED <<is_running, mon_pc, mon_k, mon_late, mon_at_stop,
                   mon_interval, mm_running, mm_next, mm_stop, monOther>>

\* continuous_monitor: `while self.is_running`
MonWhileCheck(i) ==
    /\ mon_pc[i] = "loop"
    /\ mon_pc' = [mon_pc EXCEPT ![i] =
                     IF is_running[i] THEN "call_snapshot" ELSE "exited"]
    /\ UNCHANGED <<is_running, mon_k, mon_late, mon_at_stop, mon_interval,
                   mm_running, main_pc, mm_next, mm_stop, monOther>>

\* continuous_monitor: self.monitor_snapshot() is entered
MonSnapshotStart(i) ==
    /\ mon_pc[i] = "call_snapshot"
    /\ mon_pc' = [mon_pc EXCEPT ![i] = "snapshot"]
    /\ mon_late' = [mon_late EXCEPT ![i].snapshots =
                       IF is_running[i] THEN @ ELSE Later(@)]
    /\ UNCHANGED <<is_running, mon_k, mon_at_stop, mon_interval, mm_running,
                   main_pc, mm_next, mm_stop, monOther>>

\* monitor_snapshot returns or raises; then the duration check; then
\* `for _ in range(interval)` begins
MonSnapshotEnd(i) ==
    /\ mon_pc[i] = "snapshot"
    /\ \E outcome \in SnapshotOutcomes :
          IF outcome = "done"
          THEN /\ mon_pc' = [mon_pc EXCEPT ![i] = "for_check"]
               /\ mon_k' = [mon_k EXCEPT ![i] = mon_interval]
          ELSE /\ mon_pc' = [mon_pc EXCEPT ![i] = "exited"]
               /\ mon_k' = mon_k
    /\ UNCHANGED <<is_running, mon_late, mon_at_stop, mon_interval, mm_running,
                   main_pc, mm_next, mm_stop, monOther>>

\* one turn of the for loop up to the sleep: the range has run out, or the
\* flag check breaks out, or time.sleep(1) is next
MonForCheck(i) ==
    /\ mon_pc[i] = "for_check"
    /\ mon_pc' = [mon_pc EXCEPT ![i] =
                     IF mon_k[i] = 0 \/ SleepInterrupted(is_running[i])
                     THEN "loop" ELSE "call_sleep"]
    /\ UNCHANGED <<is_running, mon_k, mon_late, mon_at_stop, mon_interval,
                   mm_running, main_pc, mm_next, mm_stop, monOther>>

\* time.sleep(1) is entered
MonSleepStart(i) ==
    /\ mon_pc[i] = "call_sleep"
    /\ mon_pc' = [mon_pc EXCEPT ![i] = "sleeping"]
    /\ mon_k' = [mon_k EXCEPT ![i] = @ - 1]
    /\ mon_late' = [mon_late EXCEPT ![i].sleeps =
                       IF is_running[i] THEN @ ELSE Later(@)]
    /\ UNCHANGED <<is_running, mon_at_stop, mon_interval, mm_running, main_pc,
                   mm_next, mm_stop, monOther>>

\* time.sleep(1) returns
MonSleepEnd(i) ==
    /\ mon_pc[i] = "sleeping"
    /\ mon_pc' = [mon_pc EXCEPT ![i] = "for_check"]
    /\ UNCHANGED <<is_running, mon_k, mon_late, mon_at_stop, mon_interval,
                   mm_running, main_pc, mm_next, mm_stop, monOther>>

\* the steps of monitor thread i
MonThread(i) ==
    \/ MonWhileCheck(i)
    \/ MonSnapshotStart(i)
    \/ MonSnapshotEnd(i)
    \/ MonForCheck(i)
    \/ MonSleepStart(i)
    \/ MonSleepEnd(i)

MonNext ==
    \/ MainStartThread
    \/ MainWaitEnds
    \/ Sigint
    \/ StopAllStep
    \/ HandlerExit
    \/ \E i \in Monitors : MonThread(i)

----------------------------------------------------------------------------
\* The batch loops: the provisioning loop of bulk_provision.main,
\* FortiFlexMSSP.suspend_customer and suspend_entitlements (use case 5)

MaxItems == 3   \* longest batch explored

BatchKinds == {"bulk_provision", "suspend_customer", "suspend_entitlements"}

\* ent['status'] of an entitlement (a device to provision has none that matters)
ItemStatuses == {"ACTIVE", "STOPPED", "PENDING"}

\* the batches handed to a loop
Batches == UNION {[1..n -> ItemStatuses] : n \in 0..MaxItems}

\* a loop that gives up at the first failure
StopAfterFailure(i, n) == n + 1

\* `except Exception as e:` records the failure and the for loop goes on
NextAfterFailure(i, n) == i + 1

\* the items a loop attempts: bulk_provision every device, suspend_customer
\* the ACTIVE entitlements, suspend_entitlements all but the STOPPED ones
Attempts(kind, status) ==
    CASE kind = "bulk_provision" -> TRUE
      [] kind = "suspend_customer" -> status = "ACTIVE"
      [] kind = "suspend_entitlements" -> status # "STOPPED"

\* results = {...} with empty lists, before the first item
BatchInit ==
    /\ b_kind \in BatchKinds
    /\ b_items \in Batches
    /\ b_i = 1
    /\ b_success = <<>>
    /\ b_failed = <<>>
    /\ b_skipped = <<>>
    /\ b_attempted = {}

\* a batch not started
BatchParked ==
    /\ b_kind = "bulk_provision"
    /\ b_items = <<>>
    /\ b_i = 1
    /\ b_success = <<>>
    /\ b_failed = <<>>
    /\ b_skipped = <<>>
    /\ b_attempted = {}

batchOther == <<clock, ticks, rlVars, crlVars, ztpVars, retryVars, msspVars,
                monVars, scriptVars, extraVars>>

\* one turn of any of the three loops whose item is attempted: the call
\* (provision, stop_entitlement) returns and the item is appended to the
\* success list, or raises and the except clause appends it to the failure list
BatchAttempt ==
    /\ b_i <= Len(b_items)
    /\ Attempts(b_kind, b_items[b_i])
    /\ b_attempted' = b_attempted \cup {b_i}
    /\ \E raised \in BOOLEAN :
          IF raised
          THEN /\ b_failed' = Append(b_failed, b_i)
               /\ b_i' = NextAfterFailure(b_i, Len(b_items))
               /\ UNCHANGED b_success
          ELSE /\ b_success' = Append(b_success, b_i)
               /\ b_i' = b_i + 1
               /\ UNCHANGED b_failed
    /\ UNCHANGED <<b_kind, b_items, b_skipped, batchOther>>

\* suspend_customer: an entitlement that is not ACTIVE is passed over
SuspendCustomerSkip ==
    /\ b_kind = "suspend_customer"
    /\ b_i <= Len(b_items)
    /\ ~Attempts(b_kind, b_items[b_i])
    /\ b_i' = b_i + 1
    /\ UNCHANGED <<b_kind, b_items, b_success, b_failed, b_skipped,
                   b_attempted, batchOther>>

\* suspend_entitlements: a STOPPED entitlement goes to already_stopped
SuspendEntitlementsSkip ==
    /\ b_kind = "suspend_entitlements"
    /\ b_i <= Len(b_items)
    /\ ~Attempts(b_kind, b_items[b_i])
    /\ b_skipped' = Append(b_skipped, b_i)
    /\ b_i' = b_i + 1
    /\ UNCHANGED <<b_kind, b_items, b_success, b_failed, b_attempted,
                   batchOther>>

BatchNext ==
    \/ BatchAttempt
    \/ SuspendCustomerSkip
    \/ SuspendEntitlementsSkip

----------------------------------------------------------------------------
\* fortiztp.scripts.ScriptManager.create

MaxContentLen == 2  \* longest content explored

\* answers to the metadata POST: created with an OID, created without one in
\* the body, refused
CreateResponses ==
    {[status |-> 201, oid |-> 7], [status |-> 200, oid |-> 8],
     [status |-> 201, oid |-> None], [status |-> 400, oid |-> None]}

\* what a content upload may meet: a status, or a network failure
UploadReplies == {NetworkFailure, 200, 201, 204, 500}

FallbackMethods == 2    \* len(fallback_methods)

NoResult == [success |-> FALSE, partial_success |-> FALSE,
             content_upload_failed |-> FALSE, oid |-> None, content_length |-> 0]

\* status_code in [200, 201, 204]
Uploaded(reply) == reply \in {200, 201, 204}

\* the dictionary returned once an upload succeeded; the keys
\* partial_success and content_upload_failed are absent (falsy under .get)
FullResult(oid, len) ==
    [success |-> TRUE, partial_success |-> FALSE,
     content_upload_failed |-> FALSE, oid |-> oid, content_length |-> len]

\* the dictionary returned when every upload failed
PartialResult(oid) ==
    [success |-> FALSE, partial_success |-> TRUE,
     content_upload_failed |-> TRUE, oid |-> oid, content_length |-> 0]

\* no call in progress
ScriptInit ==
    /\ s_pc = "idle"
    /\ s_content_len = 0
    /\ s_oid = None
    /\ s_uploads = <<>>
    /\ s_result = NoResult
    /\ s_error = "none"
    /\ s_ops = 0

scriptOther == <<clock, ticks, rlVars, crlVars, ztpVars, retryVars, msspVars,
                 monVars, batchVars, extraVars>>

\* create(name, content) up to the metadata POST: ValueError for an empty
\* name or content, APIError unless the answer is 200/201 with an OID
ScriptCreate ==
    /\ s_pc \in {"idle", "returned", "raised"}
    /\ s_ops < MaxOps
    /\ s_ops' = s_ops + 1
    /\ s_uploads' = <<>>
    /\ s_result' = NoResult
    /\ \E name_given \in BOOLEAN, len \in 0..MaxContentLen, resp \in CreateResponses :
          /\ s_content_len' = len
          /\ IF ~name_given \/ len = 0
             THEN s_pc' = "raised" /\ s_error' = "ValueError" /\ s_oid' = None
             ELSE IF resp.status \notin {200, 201} \/ resp.oid = None
             THEN s_pc' = "raised" /\ s_error' = "APIError" /\ s_oid' = None
             ELSE s_pc' = "upload" /\ s_error' = "none" /\ s_oid' = resp.oid
    /\ UNCHANGED scriptOther

\* the first upload, requests.put with the JSON body, outside any try: what
\* it raises leaves create
ScriptUpload ==
    /\ s_pc = "upload"
    /\ \E reply \in UploadReplies :
          /\ s_uploads' = Append(s_uploads, reply)
          /\ IF reply = NetworkFailure
             THEN /\ s_pc' = "raised" /\ s_error' = "RequestException"
                  /\ UNCHANGED s_result
             ELSE IF Uploaded(reply)
             THEN /\ s_pc' = "returned"
                  /\ s_result' = FullResult(s_oid, s_content_len)
                  /\ UNCHANGED s_error
             ELSE /\ s_pc' = "fallback"
                  /\ UNCHANGED <<s_result, s_error>>
    /\ UNCHANGED <<s_content_len, s_oid, s_ops, scriptOther>>

\* one turn of `for method in fallback_methods`: a success returns, an
\* exception or another status goes on; after the last one the partial
\* result is returned
ScriptFallback ==
    /\ s_pc = "fallback"
    /\ \E reply \in UploadReplies :
          /\ s_uploads' = Append(s_uploads, reply)
          /\ IF reply # NetworkFailure /\ Uploaded(reply)
             THEN /\ s_pc' = "returned"
                  /\ s_result' = FullResult(s_oid, s_content_len)
             ELSE IF Len(s_uploads) = FallbackMethods
             THEN /\ s_pc' = "returned"
                  /\ s_result' = PartialResult(s_oid)
             ELSE UNCHANGED <<s_pc, s_result>>
    /\ UNCHANGED <<s_content_len, s_oid, s_error, s_ops, scriptOther>>

ScriptNext ==
    \/ ScriptCreate
    \/ ScriptUpload
    \/ ScriptFallback

----------------------------------------------------------------------------
\* create_config of FortiFlexClient and of FortiFlexMSSP: the payload built
\* from the arguments, and what is made of the server's answer

\* an argument left out or empty ('' and None are both falsy)
NoString == ""

ConfigClients == {"FortiFlexClient", "FortiFlexMSSP"}

\* values of the parameters argument
ParameterLists ==
    {<<>>,
     <<[id |-> 27, value |-> "FGT60F"]>>,
     <<[id |-> 27, value |-> "FGT60F"], [id |-> 28, value |-> "FGHWUTP"]>>}

\* the calls explored; account_id None stands for None and 0 (both falsy)
ConfigArgs ==
    [name : {"X", NoString}, product_type_id : {101, 206},
     parameters : ParameterLists, program_sn : {NoString, "ELAVMS2"},
     account_id : {None, 12345}]

\* ids the server gives the configuration created
ConfigIds == {555, 1}

NoPayload == [none |-> TRUE]

\* program_sn = program_sn or self.program_sn (FortiFlexMSSP); FortiFlexClient
\* has no such argument and uses self.program_sn
ProgramSnOf(client, self_sn, args) ==
    IF client = "FortiFlexMSSP" /\ args.program_sn # NoString
    THEN args.program_sn ELSE self_sn

\* a payload that leaves the parameters out
PayloadWithoutParameters(sn, args) ==
    [programSerialNumber |-> sn, name |-> args.name,
     productTypeId |-> args.product_type_id]

\* payload = {...}; if account_id: payload["accountId"] = account_id
Payload(sn, args) ==
    IF args.account_id # None
    THEN [programSerialNumber |-> sn, name |-> args.name,
          productTypeId |-> args.product_type_id,
          parameters |-> args.parameters, accountId |-> args.account_id]
    ELSE [programSerialNumber |-> sn, name |-> args.name,
          productTypeId |-> args.product_type_id,
          parameters |-> args.parameters]

\* _make_request returns response.json(): the document as the server sent it
ResultOf(document) == document

\* a call about to be made
CfgInit ==
    /\ cfg_client \in ConfigClients
    /\ cfg_program_sn \in {NoString, "ELAVMS1"}
    /\ cfg_args \in ConfigArgs
    /\ cfg_pc = "called"
    /\ cfg_payload = NoPayload
    /\ cfg_response = NoPayload
    /\ cfg_result = NoPayload

\* no call in progress
CfgParked ==
    /\ cfg_client = "FortiFlexClient"
    /\ cfg_program_sn = NoString
    /\ cfg_args = [name |-> NoString, product_type_id |-> 101,
                   parameters |-> <<>>, program_sn |-> NoString,
                   account_id |-> None]
    /\ cfg_pc = "called"
    /\ cfg_payload = NoPayload
    /\ cfg_response = NoPayload
    /\ cfg_result = NoPayload

cfgOther == <<clock, ticks, rlVars, crlVars, ztpVars, retryVars, msspVars,
              monVars, batchVars, scriptVars, decode_error_is_request_exception>>

\* create_config up to _make_request: FortiFlexMSSP raises ValueError without
\* a program serial number; else the payload is built and sent
CfgBuild ==
    /\ cfg_pc = "called"
    /\ LET sn == ProgramSnOf(cfg_client, cfg_program_sn, cfg_args)
       IN  IF cfg_client = "FortiFlexMSSP" /\ sn = NoString
           THEN cfg_pc' = "raised" /\ cfg_payload' = cfg_payload
           ELSE cfg_pc' = "sent" /\ cfg_payload' = Payload(sn, cfg_args)
    /\ UNCHANGED <<cfg_client, cfg_program_sn, cfg_args, cfg_response,
                   cfg_result, cfgOther>>

\* the server answers {"configs": {"id": n}} and create_config returns
CfgReturn ==
    /\ cfg_pc = "sent"
    /\ \E n \in ConfigIds :
          LET document == [configs |-> [id |-> n]]
          IN  /\ cfg_response' = document
              /\ cfg_result' = ResultOf(document)
    /\ cfg_pc' = "returned"
    /\ UNCHANGED <<cfg_client, cfg_program_sn, cfg_args, cfg_payload, cfgOther>>

CfgNext == CfgBuild \/ CfgReturn

----------------------------------------------------------------------------
\* Specifications

\* the components added last, not started
ExtraParked == CfgParked /\ decode_error_is_request_exception = TRUE

\* the components above the limiters, as constructed
AppParked ==
    /\ MInit /\ m_token_expires_at = DefaultExpiresIn
    /\ MonInit /\ mon_interval = 1
    /\ BatchParked
    /\ ScriptInit
    /\ ExtraParked

InitLimiters ==
    InitClock /\ LimitsInit /\ RLInit /\ CRLInit /\ ZInit /\ RParked /\ AppParked

SpecRateLimiter == InitLimiters /\ [][RLNext]_vars

SpecClientSeq == InitLimiters /\ [][CRLNextSeq]_vars

SpecClientConc == InitLimiters /\ [][CRLNextConc]_vars

\* a FortiZTPClient as constructed; the limiters stay as constructed
InitZTP ==
    /\ InitClock /\ RLInit /\ CRLInit /\ ZInit /\ RParked /\ AppParked
    /\ max_per_minute = 1 /\ max_per_hour = 2

SpecZTP == InitZTP /\ [][ZNext]_vars

SpecProvision == InitZTP /\ [][ZProvisionNext]_vars

\* a decorated call; the other components stay as constructed
InitRetry ==
    /\ InitClock /\ RLInit /\ CRLInit /\ ZInit /\ RInit /\ AppParked
    /\ max_per_minute = 1 /\ max_per_hour = 2

SpecRetry == InitRetry /\ [][RNext]_vars

\* the thread inside the wrapper keeps running: the wrapped call returns or
\* raises, and time.sleep returns
RetryFairness == WF_vars(RAttempt \/ RExhaust)

SpecRetryFair == InitRetry /\ [][RNext]_vars /\ RetryFairness

\* a call under fortiflex_client.retry_with_backoff, with either kind of
\* requests library installed
InitClientRetry ==
    /\ InitClock /\ RLInit /\ CRLInit /\ ZInit /\ RInit
    /\ MInit /\ m_token_expires_at = DefaultExpiresIn
    /\ MonInit /\ mon_interval = 1
    /\ BatchParked /\ ScriptInit /\ CfgParked
    /\ decode_error_is_request_exception \in BOOLEAN
    /\ max_per_minute = 1 /\ max_per_hour = 2

SpecClientRetry == InitClientRetry /\ [][CRNext]_vars

\* a FortiFlexMSSP as constructed; the other components stay as constructed
InitMSSP ==
    /\ InitClock /\ RLInit /\ CRLInit /\ ZInit /\ RParked /\ MInit
    /\ MonInit /\ mon_interval = 1
    /\ BatchParked /\ ScriptInit /\ ExtraParked
    /\ max_per_minute = 1 /\ max_per_hour = 2

SpecMSSP == InitMSSP /\ [][MNext]_vars

\* a FortiFlexMSSP about to be constructed
InitConstruct ==
    /\ InitClock /\ RLInit /\ CRLInit /\ ZInit /\ RParked /\ MNew
    /\ MonInit /\ mon_interval = 1
    /\ BatchParked /\ ScriptInit /\ ExtraParked
    /\ max_per_minute = 1 /\ max_per_hour = 2

SpecConstruct == InitConstruct /\ [][MConstructNext]_vars

\* the monitors as start_monitoring finds them; the other components stay as
\* constructed
InitMonitors ==
    /\ InitClock /\ RLInit /\ CRLInit /\ ZInit /\ RParked
    /\ MInit /\ m_token_expires_at = DefaultExpiresIn
    /\ MonInit
    /\ BatchParked /\ ScriptInit /\ ExtraParked
    /\ max_per_minute = 1 /\ max_per_hour = 2

\* the monitor threads keep running while one of them can (a snapshot in
\* progress ends, time.sleep(1) returns), and the signal handler, once
\* entered, runs to its end
MonFairness ==
    /\ WF_vars(\E i \in Monitors : MonThread(i))
    /\ WF_vars(StopAllStep \/ HandlerExit)

SpecMonitors == InitMonitors /\ [][MonNext]_vars /\ MonFairness

\* what every component but the one under study starts as
RestParked ==
    /\ InitClock /\ RLInit /\ CRLInit /\ ZInit /\ RParked
    /\ MInit /\ m_token_expires_at = DefaultExpiresIn
    /\ MonInit /\ mon_interval = 1
    /\ max_per_minute = 1 /\ max_per_hour = 2

\* a batch handed to one of the three loops
InitBatch == RestParked /\ BatchInit /\ ScriptInit /\ ExtraParked

SpecBatch == InitBatch /\ [][BatchNext]_vars

\* a ScriptManager before its first create
InitScript == RestParked /\ BatchParked /\ ScriptInit /\ ExtraParked

SpecScript == InitScript /\ [][ScriptNext]_vars

\* a create_config call about to be made
InitConfig ==
    /\ RestParked /\ BatchParked /\ ScriptInit /\ CfgInit
    /\ decode_error_is_request_exception = TRUE

SpecConfig == InitConfig /\ [][CfgNext]_vars

----------------------------------------------------------------------------
\* C1: the number of calls fortiflex_mssp.RateLimiter releases inside any
\* 60-second window never exceeds max_per_minute, and inside any 3600-second
\* window never exceeds max_per_hour (windows are half-open and may be taken
\* to start at a release).
C1_WindowCeilings ==
    \A i \in 1..Len(rl_released) :
        /\ InWindow(rl_released, rl_released[i], MinuteWindow) <= max_per_minute
        /\ InWindow(rl_released, rl_released[i], HourWindow) <= max_per_hour

\* C2: with one sequential caller of fortiflex_client.RateLimiter, the number
\* of calls that return inside any 60-second window of real time never exceeds
\* max_per_minute, and inside any 3600-second window never exceeds max_per_hour.
C2_ClientWindowCeilings ==
    \A i \in 1..Len(c_released) :
        /\ InWindow(c_released, c_released[i], MinuteWindow) <= max_per_minute
        /\ InWindow(c_released, c_released[i], HourWindow) <= max_per_hour

\* number of entries of q equal to x
Count(q, x) == Cardinality({i \in 1..Len(q) : q[i] = x})

\* C3: under concurrent callers no recorded call is lost: a timestamp that a
\* returned call appended, and that is too recent for any prune to have
\* dropped it, is still held by minute_calls and by hour_calls.
C3_NoRecordedCallLost ==
    \A i \in 1..Len(c_done) :
        /\ c_done[i] > clock - MinuteWindow =>
               Count(c_minute_calls, c_done[i]) >= Count(c_done, c_done[i])
        /\ c_done[i] > clock - HourWindow =>
               Count(c_hour_calls, c_done[i]) >= Count(c_done, c_done[i])

\* C4: get_token() invoked at time t while a token issued at T with
\* expires_in = E > 60 is held performs an authenticate call if and only if
\* t >= T + E - 60.
C4_RefreshExactlyFromBuffer ==
    (z_gt.held /\ z_gt.E > 60) =>
        (z_gt.posts = 1 <=> z_gt.at >= z_gt.T + z_gt.E - 60)

\* a token of lifetime 3600 is refreshed by the get_token() made at T + 3540
C4_Witness ==
    /\ z_gt.held /\ z_gt.E = 3600
    /\ z_gt.at = z_gt.T + 3540
    /\ z_gt.posts = 1

\* C5: while the held token was issued with a lifetime not longer than the
\* 60-second buffer, every get_token() performs an authenticate call.
C5_ShortLivedAlwaysAuthenticates ==
    (z_gt.held /\ z_gt.E <= 60) => z_gt.posts = 1

\* get_token() one second after a 10-second token was issued authenticates again
C5_Witness ==
    /\ z_gt.held /\ z_gt.E = 10
    /\ z_gt.at = z_gt.T + 1
    /\ z_gt.posts = 1
    /\ z_auth_calls = 2

\* C6: when the first business response is 401 and the request is retried,
\* exactly one POST to the token endpoint and exactly one retried request
\* were made after the 401, whatever lifetime the new token has.
C6_OneReauthOneRetry ==
    (z_call.got401 /\ z_call.retried > 0) =>
        (z_call.auths_after_401 = 1 /\ z_call.retried = 1)

\* C7: when the retried request is answered 401 again, the logical call fails
\* with AuthenticationError (and nothing further is requested or refreshed).
C7_SecondUnauthorizedIsAuthError ==
    (z_pc = "idle" /\ z_call.got401 /\ z_call.retry_status = 401) =>
        (z_outcome = "AuthenticationError"
         /\ z_call.requests = 2 /\ z_call.auths_after_401 <= 2)

\* C8: when the wrapped call fails with HTTP 429 on attempts 1..N-1 and
\* succeeds on attempt N <= max_retries, the call returns that result, and the
\* sleep after the k-th failure (k from 0) is min(base_delay * 2^k, max_delay):
\* non-decreasing, and strictly increasing until capped.
C8_BackoffThenSuccess ==
    LET n == Len(r_replies)
    IN  (/\ n >= 1 /\ n <= r_max_retries
         /\ r_replies[n] = 200
         /\ \A k \in 1..(n - 1) : r_replies[k] = 429)
        => /\ r_pc = "returned" /\ r_result = n
           /\ Len(r_sleeps) = n - 1
           /\ \A k \in 0..(n - 2) :
                  r_sleeps[k + 1] =
                      IF r_base_delay * (2 ^ k) < r_max_delay
                      THEN r_base_delay * (2 ^ k) ELSE r_max_delay
           /\ \A k \in 1..(n - 2) :
                  /\ r_sleeps[k] <= r_sleeps[k + 1]
                  /\ r_sleeps[k] < r_sleeps[k + 1] \/ r_sleeps[k + 1] = r_max_delay

\* two 429s then a 200, the second delay capped by max_delay
C8_Witness ==
    /\ r_pc = "returned" /\ r_replies = <<429, 429, 200>>
    /\ r_base_delay = 2 /\ r_max_delay = 3
    /\ r_sleeps = <<2, 3>>

\* C9: a business call answered 400 (or another 4xx/5xx that is not 401, 429
\* or 503) fails on the first attempt: one request, no backoff sleep, and the
\* HTTP error reaches the caller.
C9_RejectedFailsAtOnce ==
    (Len(r_replies) >= 1 /\ r_replies[1] \in {400, 500}) =>
        /\ r_calls = 1
        /\ r_sleeps = <<>>
        /\ r_pc = "raised"
        /\ r_error = [type |-> "HTTPError", status |-> r_replies[1], response |-> 1]

\* a 400 on the first request of a call that may retry three times
C9_Witness ==
    /\ r_replies = <<400>> /\ r_max_retries = 3
    /\ r_pc = "raised" /\ r_error.status = 400

\* C10: when every attempt failed transiently and the budget is used up, the
\* error raised carries the status and the body of the last failed response.
C10_ExhaustedCarriesLastResponse ==
    (/\ r_pc = "raised" /\ r_max_retries >= 1
     /\ Len(r_replies) = r_max_retries
     /\ \A k \in 1..Len(r_replies) : r_replies[k] \in {429, 503})
    => /\ r_error.status = r_replies[Len(r_replies)]
       /\ r_error.response = Len(r_replies)

\* C11: in every business request of FortiFlexMSSP that reaches the HTTP
\* request, the rate-limiter wait, the token expiry check and the HTTP request
\* happen in that order, and the bearer token in the Authorization header is
\* the token held after the expiry check (the new one whenever the check
\* refreshed it).
C11_BearerIsTokenAfterCheck ==
    m_call.sent =>
        /\ Len(m_call.steps) >= 3
        /\ SubSeq(m_call.steps, Len(m_call.steps) - 2, Len(m_call.steps))
               = <<"wait", "check", "http">>
        /\ m_call.bearer = m_call.held

\* C12: one invocation of FortiFlexMSSP.get_token POSTs to the token endpoint
\* exactly once, and when that POST fails (any status from 400 up, or a network
\* failure) the invocation fails without repeating it.
C12_OnePostPerAuthentication ==
    m_gt.invoked =>
        /\ m_gt.posts = 1
        /\ m_gt.replies[1] # 200 => m_gt.error # "none"

InCheckSleepRecord(t) ==
    rl_pc[t] \in {"sleep_minute", "check_hour", "sleep_hour", "record"}

\* C15: in fortiflex_mssp.RateLimiter at most one thread at a time is between
\* pruning the windows and recording its timestamp, sleeping included; that
\* thread holds the lock and every other caller is outside wait_if_needed or
\* waiting at the lock.
C15_CheckSleepRecordExclusive ==
    \A t \in Threads :
        InCheckSleepRecord(t) =>
            /\ lock = t
            /\ \A u \in Threads \ {t} : rl_pc[u] \in {"idle", "at_lock"}

\* one thread sleeps inside the with-block while another waits at the lock
C15_Witness ==
    \E t, u \in Threads :
        /\ t # u
        /\ rl_pc[t] \in Sleeping /\ lock = t
        /\ rl_pc[u] = "at_lock"
        /\ clock > rl_now[t]

\* C14: get_token("flexvm") leaves asset_token and asset_token_expires_at
\* unchanged, get_token("assetmanagement") leaves access_token, refresh_token
\* and token_expires_at unchanged, and each profile always holds the token of
\* its own most recent successful authentication.
C14_ProfilesIndependent ==
    /\ m_access_token = m_last_auth["flexvm"]
    /\ m_asset_token = m_last_auth["assetmanagement"]
    /\ (m_gt.invoked /\ m_gt.client_id = "flexvm") =>
           <<m_asset_token, m_asset_token_expires_at>>
               = <<m_gt.pre[4], m_gt.pre[5]>>
    /\ (m_gt.invoked /\ m_gt.client_id = "assetmanagement") =>
           <<m_access_token, m_refresh_token, m_token_expires_at>>
               = <<m_gt.pre[1], m_gt.pre[2], m_gt.pre[3]>>

\* the flexvm profile is refreshed after the assetmanagement profile got its
\* token: each keeps its own
C14_Witness ==
    /\ m_gt.invoked /\ m_gt.client_id = "flexvm" /\ m_gt.error = "none"
    /\ m_asset_token # None
    /\ m_access_token > m_asset_token
    /\ m_gt.pre[4] = m_asset_token

\* C16: the rate limiter never fails a call: no invocation of wait_if_needed
\* ends by raising; each one goes on to record its timestamp and return.
C16_NoCallRaises ==
    \A t \in Threads : c_pc[t] # "IndexError"

\* C17 as first stated: once stop() has cleared is_running, continuous_monitor
\* enters no further monitor_snapshot and no further time.sleep(1): it exits
\* after at most the one that was already in progress.
C17_NothingStartedAfterStop ==
    \A i \in Monitors :
        mon_late[i].snapshots = 0 /\ mon_late[i].sleeps = 0

\* C17: once stop() has cleared is_running, continuous_monitor passes no
\* further check of the flag: besides the snapshot or sleep in progress it
\* enters at most one monitor_snapshot or one time.sleep(1), and only the one
\* whose flag check had been passed when stop() ran; the next evaluation of
\* the loop condition ends the loop. The wait between snapshots is made of
\* time.sleep(1) calls, each reached from a check that found the flag set.
C17_StopsAtNextFlagCheck ==
    /\ [](\A i \in Monitors :
            /\ mon_late[i].snapshots + mon_late[i].sleeps <= 1
            /\ mon_late[i].snapshots = 1 => mon_at_stop[i] = "call_snapshot"
            /\ mon_late[i].sleeps = 1 => mon_at_stop[i] = "call_sleep")
    /\ [][\A i \in Monitors :
            (mon_pc[i] # "call_sleep" /\ mon_pc'[i] = "call_sleep") =>
                (mon_pc[i] = "for_check" /\ is_running[i] /\ mon_k[i] > 0)]_vars
    /\ [][\A i \in Monitors :
            (mon_pc[i] = "loop" /\ mon_pc'[i] # "loop" /\ ~is_running[i]) =>
                mon_pc'[i] = "exited"]_vars

\* stop() ran between `while self.is_running` and the call of
\* monitor_snapshot: that snapshot was still taken, and the loop then exited
C17_Witness ==
    \E i \in Monitors :
        /\ mon_at_stop[i] = "call_snapshot"
        /\ mon_late[i] = [snapshots |-> 1, sleeps |-> 0]
        /\ mon_pc[i] = "exited"

\* C18: once stop_all() has returned every monitor's flag is cleared, no flag
\* is ever set again, and from the call of stop_all() on every monitor thread
\* that was started eventually terminates and start_monitoring ends.
C18_StopAllStopsEveryMonitor ==
    /\ [](main_pc = "exited" => \A i \in Monitors : ~is_running[i])
    /\ [][\A i \in Monitors : ~is_running[i] => ~is_running'[i]]_vars
    /\ (main_pc = "stop_all") ~> (Alive = {} /\ main_pc = "exited")

\* both threads were started, one was asleep and one inside a snapshot when
\* stop_all cleared their flags, and both have terminated
C18_Witness ==
    /\ main_pc = "exited"
    /\ \A i \in Monitors : mon_pc[i] = "exited" /\ ~is_running[i]
    /\ \E i, j \in Monitors :
           mon_at_stop[i] = "sleeping" /\ mon_at_stop[j] = "snapshot"

\* the items of the batch the loop is meant to attempt
Eligible == {i \in 1..Len(b_items) : Attempts(b_kind, b_items[i])}

\* the items held by a list
Members(list) == {list[k] : k \in 1..Len(list)}

\* C19: in the three batch loops a failure on one item does not keep the
\* remaining items from being attempted (when the loop has ended every
\* eligible item was attempted), and every attempted item is in exactly one of
\* the success list and the failure list, once: the two counts add up to the
\* number of items attempted.
C19_BatchContinuesAndTallies ==
    /\ Members(b_success) \cup Members(b_failed) = b_attempted
    /\ Members(b_success) \cap Members(b_failed) = {}
    /\ Len(b_success) + Len(b_failed) = Cardinality(b_attempted)
    /\ b_i > Len(b_items) => b_attempted = Eligible

\* suspend_customer ended: the first entitlement failed, the third was
\* suspended all the same, the one that is not ACTIVE was not attempted
C19_Witness ==
    /\ b_kind = "suspend_customer"
    /\ b_items = <<"ACTIVE", "STOPPED", "ACTIVE">>
    /\ b_i > Len(b_items)
    /\ b_failed = <<1>> /\ b_success = <<3>>

\* C20: whenever the metadata POST of ScriptManager.create has succeeded and
\* returned an OID, create returns a result and does not raise; success is
\* True exactly when some content upload was answered 200, 201 or 204, and
\* otherwise the result has success False, partial_success True and
\* content_upload_failed True, whatever the uploads met.
C20_CreatedScriptAlwaysReported ==
    (s_oid # None /\ s_pc \in {"returned", "raised"}) =>
        /\ s_pc = "returned"
        /\ s_result.oid = s_oid
        /\ s_result.success <=>
               \E k \in 1..Len(s_uploads) : s_uploads[k] \in {200, 201, 204}
        /\ ~s_result.success =>
               s_result.partial_success /\ s_result.content_upload_failed

\* the arguments of the provision call fail one of the three checks
RejectedArgs(args) ==
    \/ args.device_type \notin
           {"FortiGate", "FortiAP", "FortiSwitch", "FortiExtender"}
    \/ args.provision_status \notin {"provisioned", "unprovisioned"}
    \/ /\ args.provision_target # ""
       /\ args.provision_target \notin
              {"FortiManager", "FortiGateCloud", "FortiEdgeCloud", "ExternalController"}

\* C21: DeviceManager.provision called with a device_type outside
\* VALID_DEVICE_TYPES, a provision_status other than provisioned/unprovisioned
\* or a non-empty provision_target outside VALID_PROVISION_TARGETS raises
\* ValueError before any effect: no authentication call, no HTTP request, and
\* the client's token state is left as it was.
C21_BadArgsRaiseBeforeAnyEffect ==
    /\ []((z_call.op = "provision" /\ RejectedArgs(z_call.args)) =>
            /\ z_outcome = "ValueError"
            /\ z_pc = "idle"
            /\ z_call.requests = 0
            /\ z_gt.posts = 0)
    /\ [][(z_ops' # z_ops /\ z_call'.op = "provision" /\ RejectedArgs(z_call'.args)) =>
            UNCHANGED <<z_access_token, z_token_expiry_time, z_auth_calls>>]_vars

\* a provision call with a provision_target the API does not know, made while
\* a token is held: ValueError, the token still held
C21_Witness ==
    /\ z_call.op = "provision"
    /\ z_call.args.device_type = "FortiGate"
    /\ z_call.args.provision_target = "FortiCloud"
    /\ z_outcome = "ValueError"
    /\ z_access_token # None
    /\ z_ops = 2

\* C22: constructing a client (FortiZTPClient or FortiFlexMSSP) issues no
\* authentication request; the token is first acquired by the first
\* authenticated call, and afterwards a token that is held is replaced only
\* on expiry (inside the refresh margin) or after a 401.
C22_TokenAcquiredLazily ==
    /\ z_ops = 0 => z_auth_calls = 0
    /\ (m_pc # "new" /\ m_ops = 0) => m_posts = 0
    /\ (m_gt.invoked /\ m_gt.posts > 0 /\ m_ops > 0) =>
           LET held == IF m_gt.client_id = "flexvm" THEN m_gt.pre[1] ELSE m_gt.pre[4]
               expires_at == IF m_gt.client_id = "flexvm" THEN m_gt.pre[3] ELSE m_gt.pre[5]
           IN  held = None \/ expires_at - m_gt.at < 300

C24_RecordsReleaseTime ==
    /\ \A i \in 1..Len(c_done) : c_done[i] = c_released[i]
    /\ (hour_calls # <<>> /\ rl_released # <<>>) =>
           hour_calls[Len(hour_calls)] = rl_released[Len(rl_released)]

\* C25: under fortiflex_client.retry_with_backoff every attempt of a
\* FortiFlexClient operation that the server answers with 429 or 503 is
\* treated as transient, whatever the body of the answer: it is followed by
\* the backoff sleep min(base_delay * 2^attempt, max_delay), and the call
\* fails only when max_retries attempts have been made.
C25_ThrottledIsRetriedWhateverTheBody ==
    /\ \A k \in 1..Len(r_replies) :
           r_replies[k] \in {429, 503} =>
               /\ Len(r_sleeps) >= k
               /\ r_sleeps[k] =
                      IF r_base_delay * (2 ^ (k - 1)) < r_max_delay
                      THEN r_base_delay * (2 ^ (k - 1)) ELSE r_max_delay
    /\ (r_pc = "raised" /\ r_replies # <<>>
        /\ r_replies[Len(r_replies)] \in {429, 503}) =>
           Len(r_replies) = r_max_retries

\* C26 as first stated: every business request FortiFlexMSSP sends, each
\* retry included, comes after exactly one wait_if_needed of its own, and
\* between two operations the number of timestamps recorded equals the number
\* of business requests sent.
C26_TimestampsEqualRequests ==
    /\ m_call.sent =>
           /\ Len(m_call.steps) = 4
           /\ m_call.steps[2] = "wait" /\ m_call.steps[4] = "http"
    /\ m_pc = "idle" => m_tally.recorded = m_tally.sent

\* C26: every business request FortiFlexMSSP sends, each retry included,
\* comes after exactly one wait_if_needed of its own, so a timestamp is
\* recorded for every request sent; the timestamps recorded are as many as the
\* _make_request calls: the requests sent plus the calls that the token
\* expiry check ended, after the wait, before any request.
C26_OneTimestampPerMakeRequest ==
    /\ m_call.sent =>
           /\ Len(m_call.steps) = 4
           /\ m_call.steps[2] = "wait" /\ m_call.steps[4] = "http"
    /\ m_tally.recorded >= m_tally.sent
    /\ m_pc \in {"idle", "headers"} =>
           m_tally.recorded = m_tally.sent + m_tally.refused

\* a call whose first request met a 503 and whose retry was ended by the
\* failed token refresh: two timestamps, one request
C26_Witness ==
    /\ m_pc = "idle"
    /\ m_attempt = 1
    /\ m_tally = [recorded |-> 2, sent |-> 1, refused |-> 1]

\* C27: once refresh_token() has been invoked, the token held before it is
\* never again held, returned by get_token() or sent in an Authorization
\* header, whether the re-authentication succeeded or failed; after a failed
\* re-authentication the client holds no token, and a get_token() that finds
\* no token authenticates.
C27_RefreshedTokenNeverReused ==
    /\ z_access_token \notin z_discarded
    /\ z_gt.returned \notin z_discarded
    /\ z_pc \in {"sent1", "sent2"} => z_call.bearer \notin z_discarded
    /\ z_call.refresh = "failed" => z_access_token = None
    /\ (z_call.op = "refresh_token" /\ z_outcome = "AuthenticationError") =>
           z_access_token = None
    /\ (z_gt.invoked /\ ~z_gt.held) => z_gt.posts = 1

\* the refresh after a 401 failed, leaving no token; the next get_token()
\* authenticated and returned a new token
C27_Witness ==
    /\ z_discarded = {1}
    /\ z_call.op = "get_token"
    /\ z_gt.invoked /\ ~z_gt.held /\ z_gt.posts = 1
    /\ z_gt.returned = 3
    /\ z_access_token = 3

C29_RetryTerminatesWithinBudget ==
    /\ [](r_calls <= r_max_retries /\ Len(r_replies) = r_calls)
    /\ []((/\ r_pc = "raised"
           /\ \A k \in 1..Len(r_replies) : r_replies[k] \in {0, 429, 503})
          => /\ r_calls = r_max_retries
             /\ Len(r_sleeps) = r_max_retries
             /\ r_error.type = "Exception")
    /\ [](r_max_retries = 0 => r_calls = 0)
    /\ (r_pc = "running") ~> (r_pc \in {"returned", "raised"})

\* three attempts, each one transient, the last answered 503: three sleeps,
\* then the Exception of the used-up loop
C29_Witness ==
    /\ r_pc = "raised"
    /\ r_max_retries = 3
    /\ r_replies = <<0, 429, 503>>
    /\ Len(r_sleeps) = 3
    /\ r_error.type = "Exception"

\* q holds its timestamps oldest first
NonDecreasing(q) == \A i \in 1..Len(q), j \in 1..Len(q) : i <= j => q[i] <= q[j]

\* the last Len(s) elements of q are s
IsSuffix(s, q) ==
    /\ Len(s) <= Len(q)
    /\ SubSeq(q, Len(q) - Len(s) + 1, Len(q)) = s

\* C30: in fortiflex_mssp.RateLimiter, under any interleaving of the callers,
\* both windows hold their timestamps in non-decreasing order and
\* minute_calls is a suffix of hour_calls.
C30_WindowsOrderedAndNested ==
    /\ NonDecreasing(minute_calls)
    /\ NonDecreasing(hour_calls)
    /\ IsSuffix(minute_calls, hour_calls)

\* three calls recorded, the oldest pruned from the minute window only
C30_Witness ==
    /\ \A t \in Threads : rl_pc[t] = "idle"
    /\ Len(rl_released) = 3
    /\ Len(hour_calls) = 3
    /\ Len(minute_calls) \in 1..2
    /\ hour_calls[1] < hour_calls[3]

====
